---- MODULE Spec2Model ----
(***************************************************************************)
(* Release-submission orchestrator: the in-memory job queue, the job       *)
(* worker and the job status reporter.                                     *)
(*                                                                         *)
(* One action per handler.  A handler runs to its next suspension point:   *)
(* JavaScript is single threaded, so the code between two awaited external *)
(* calls (adapter, validator) runs without interleaving.  The continuation *)
(* of `await this.processJob(...)` in processNextJob (its finally block)   *)
(* runs in the same microtask drain as processJob's tail and is part of    *)
(* the same action.                                                        *)
(***************************************************************************)
EXTENDS Integers, Sequences, FiniteSets, TLC

\* Number of jobs submitted in a run (job ids are fresh, 1..MaxJobs).
MaxJobs == 2

\* ReporterSpec: number of status-changing calls made on one record.
MaxCalls == 3

\* QueueSpec: number of jobs created, and number of enqueue calls in a run.
MaxQueued == 3
MaxEnqueues == 4

\* FnSpec: largest retry count given to calculateRetryDelay; number of
\* records in the reporter and the latest reading of the clock (in
\* milliseconds) when cleanupOldJobs is called.
MaxRetryCount == 5
MaxRecords == 3
MaxClock == 2

\* JobPriority enum members used as inputs.
LOW == 0
NORMAL == 1
HIGH == 2
CRITICAL == 3

\* The part of a job's data the handlers branch on (SubmitIOSJobData,
\* SubmitAndroidJobData): whether there is a buildPath, the skipMetadata flag,
\* the track, and userFraction in percent (0: not given).
JobData(buildPath, skipMetadata, track, userFraction) ==
    [buildPath |-> buildPath, skipMetadata |-> skipMetadata, track |-> track,
     userFraction |-> userFraction]

\* A submission with a build and its metadata: no step is skipped.
FullBuild == JobData(TRUE, FALSE, "none", 0)

\* The jobs a caller submits: <<type, data, priority, maxRetries>> given to
\* createJob.  One type per kind of branch of the switch in processJob: an
\* iOS submission (several awaited adapter calls), a metadata validation (one
\* awaited call that may return an invalid result) and a type with no case.
\* Priorities and retry budgets (0: none, 2: some) both occur equal and
\* different.
JobInputs ==
    { <<"IOS_SUBMIT_APP_STORE", FullBuild, HIGH, 2>>,
      <<"VALIDATE_METADATA", FullBuild, NORMAL, 0>>,
      <<"IOS_METADATA_UPDATE", FullBuild, NORMAL, 0>> }

JobIds == 1..MaxJobs

\* progress.percentage when addProgress is called without one (undefined)
NoPct == -1

TerminalStatuses == {"SUCCEEDED", "FAILED", "CANCELLED"}

TerminalCodes == {"JOB_COMPLETED", "JOB_FAILED", "JOB_CANCELLED"}

VARIABLES
    processing,   \* JobWorker.processing
    intervalId,   \* JobWorker.intervalId is set (TRUE) or null (FALSE)
    queue,        \* JobQueue.queue: sequence of job ids
    activeJobs,   \* keys of JobWorker.activeJobs
    job,          \* the JobDefinition objects, by id
    rep,          \* JobStatusReporter.jobs, by id (status "NONE": no record)
    pc,           \* the awaited call an in-flight attempt is suspended in
    aborted,      \* signal.aborted of the in-flight attempt's AbortController
    retryTimers,  \* jobs with a pending setTimeout re-enqueue
    nextId,       \* next fresh job id
    obs,          \* observation record per job (not program state)
    noopCancel,   \* cancelJob has been called on a terminal job (not program state)
    arrival,      \* QueueSpec: rank of each job's latest enqueue (not program state)
    call,         \* FnSpec: the function called and its arguments
    ret,          \* FnSpec: what the call returned or threw
    poll          \* PollSpec: where the polling loop stands

vars == <<processing, intervalId, queue, activeJobs, job, rep, pc, aborted,
          retryTimers, nextId, obs, noopCancel, arrival, call, ret, poll>>

\* The variables of the component specifications, which the worker leaves alone
componentVars == <<arrival, call, ret, poll>>

----------------------------------------------------------------------------
\* jobs.ts

createJob(type, data, priority, maxRetries) ==
    [type |-> type, data |-> data, priority |-> priority, status |-> "QUEUED",
     retryCount |-> 0, maxRetries |-> maxRetries]

shouldRetryJob(d) == d.retryCount < d.maxRetries /\ d.status = "FAILED"

\* calculateRetryDelay's default for baseDelay, and the mark of the argument
\* being left out
DefaultBaseDelay == 1000
NoBaseDelay == -1

\* Math.pow(2, n) for an integer n >= 0
RECURSIVE Pow2(_)
Pow2(n) == IF n = 0 THEN 1 ELSE 2 * Pow2(n - 1)

\* a delay that grows by baseDelay with every retry
calculateRetryDelay_linear(retryCount, baseDelay) ==
    (IF baseDelay = NoBaseDelay THEN DefaultBaseDelay ELSE baseDelay) * (retryCount + 1)

calculateRetryDelay(retryCount, baseDelay) ==
    (IF baseDelay = NoBaseDelay THEN DefaultBaseDelay ELSE baseDelay) * Pow2(retryCount)

createJobResult == [success |-> TRUE, error |-> ""]

createJobErrorResult(error) == [success |-> FALSE, error |-> error]

----------------------------------------------------------------------------
\* status/reporter.ts, on one record r of the jobs map

NoRecord ==
    [status |-> "NONE", progress |-> <<>>, hasResult |-> FALSE,
     success |-> FALSE, errors |-> <<>>, startedAt |-> 0, completedAt |-> 0,
     clock |-> 0, statuses |-> <<>>]

\* new Date(): every reading of the clock is later than the ones before it
Now(r) == [r EXCEPT !.clock = @ + 1]

addProgress(r, code, pct) ==
    [r EXCEPT !.progress = Append(@, [code |-> code, pct |-> pct])]

\* updateJobStatus without the `!job.startedAt` guard
updateJobStatus_restamps(r, status) ==
    LET r1 == [r EXCEPT !.status = status, !.statuses = Append(@, status)]
        r2 == IF status = "RUNNING"
              THEN [Now(r1) EXCEPT !.startedAt = r1.clock + 1]
              ELSE r1
    IN  IF status \in TerminalStatuses
        THEN [Now(r2) EXCEPT !.completedAt = r2.clock + 1]
        ELSE r2

updateJobStatus(r, status) ==
    LET r1 == [r EXCEPT !.status = status, !.statuses = Append(@, status)]
        r2 == IF status = "RUNNING" /\ r1.startedAt = 0
              THEN [Now(r1) EXCEPT !.startedAt = r1.clock + 1]
              ELSE r1
    IN  IF status \in TerminalStatuses
        THEN [Now(r2) EXCEPT !.completedAt = r2.clock + 1]
        ELSE r2

\* createJob that does not record the JOB_STARTED event
reporterCreateJob_noEvent ==
    [NoRecord EXCEPT !.status = "QUEUED", !.statuses = <<"QUEUED">>]

reporterCreateJob ==
    addProgress([NoRecord EXCEPT !.status = "QUEUED", !.statuses = <<"QUEUED">>],
                "JOB_STARTED", NoPct)

\* setJobResult that reports a failure without its JOB_FAILED event
setJobResult_silentFailure(r, success, errors) ==
    LET r1 == [r EXCEPT !.hasResult = TRUE, !.success = success, !.errors = errors]
    IN  IF success
        THEN addProgress(updateJobStatus(r1, "SUCCEEDED"), "JOB_COMPLETED", 100)
        ELSE updateJobStatus(r1, "FAILED")

\* setJobResult reporting completion as the fraction 1 for 100 percent
setJobResult_fractionComplete(r, success, errors) ==
    LET r1 == [r EXCEPT !.hasResult = TRUE, !.success = success, !.errors = errors]
    IN  IF success
        THEN addProgress(updateJobStatus(r1, "SUCCEEDED"), "JOB_COMPLETED", 1)
        ELSE addProgress(updateJobStatus(r1, "FAILED"), "JOB_FAILED", NoPct)

setJobResult(r, success, errors) ==
    LET r1 == [r EXCEPT !.hasResult = TRUE, !.success = success, !.errors = errors]
    IN  IF success
        THEN addProgress(updateJobStatus(r1, "SUCCEEDED"), "JOB_COMPLETED", 100)
        ELSE addProgress(updateJobStatus(r1, "FAILED"), "JOB_FAILED", NoPct)

\* cancelJob without the guard on the current status
reporterCancelJob_noGuard(r) ==
    addProgress(updateJobStatus(r, "CANCELLED"), "JOB_CANCELLED", NoPct)

reporterCancelJob(r) ==
    IF r.status \in {"RUNNING", "WAITING", "QUEUED"}
    THEN addProgress(updateJobStatus(r, "CANCELLED"), "JOB_CANCELLED", NoPct)
    ELSE r

\* getProgressPercentage: `latestProgress.percentage || 0`, 0 without progress
getProgressPercentage(r) ==
    IF r.progress = <<>> THEN 0
    ELSE LET latestProgress == r.progress[Len(r.progress)]
         IN  IF latestProgress.pct = NoPct THEN 0 ELSE latestProgress.pct

\* listJobs: the records sorted by createdAt, latest first.  Array.sort is
\* stable: records with the same createdAt stay in the order of the Map,
\* which is the order they were created in.
RECURSIVE InsertByCreatedAt(_, _)
InsertByCreatedAt(s, x) ==
    IF s = <<>> THEN <<x>>
    ELSE IF Head(s).createdAt >= x.createdAt
         THEN <<Head(s)>> \o InsertByCreatedAt(Tail(s), x)
         ELSE <<x>> \o s

RECURSIVE listJobs(_)
listJobs(jobs) ==
    IF jobs = <<>> THEN <<>>
    ELSE InsertByCreatedAt(listJobs(SubSeq(jobs, 1, Len(jobs) - 1)), jobs[Len(jobs)])

\* cleanupOldJobs on the Map `jobs` (its records in insertion order), for a
\* keepCount >= 0: the Map it leaves
cleanupOldJobs(jobs, keepCount) ==
    LET sorted == listJobs(jobs)
    IN  IF Len(sorted) <= keepCount THEN jobs
        ELSE LET toDelete == SubSeq(sorted, keepCount + 1, Len(sorted))
             IN  SelectSeq(jobs, LAMBDA x : ~\E i \in 1..Len(toDelete) : toDelete[i].id = x.id)

----------------------------------------------------------------------------
\* queue/worker.ts: JobQueue

\* Array.prototype.sort with (a, b) => b.priority - a.priority: stable,
\* higher priority first.  Insert x behind every element it does not precede.
RECURSIVE InsertSorted(_, _, _)
InsertSorted(s, x, prio) ==
    IF s = <<>> THEN <<x>>
    ELSE IF prio[Head(s)] >= prio[x]
         THEN <<Head(s)>> \o InsertSorted(Tail(s), x, prio)
         ELSE <<x>> \o s

RECURSIVE SortByPriority(_, _)
SortByPriority(s, prio) ==
    IF s = <<>> THEN <<>>
    ELSE InsertSorted(SortByPriority(SubSeq(s, 1, Len(s) - 1), prio), s[Len(s)], prio)

\* enqueue that pushes without sorting
enqueue_unsorted(q, j, prio) == Append(q, j)

enqueue(q, j, prio) == SortByPriority(Append(q, j), prio)

\* a dequeue that returns the first job and leaves it in the queue
dequeue_peek(q) == [job |-> Head(q), queue |-> q]

\* Array.prototype.shift on a non-empty queue: the job returned and the
\* queue left
dequeue(q) == [job |-> Head(q), queue |-> Tail(q)]

InQueue(q, j) == \E i \in 1..Len(q) : q[i] = j

\* a cancelJob that leaves the queue as it is
RemoveFirst_noSplice(q, j) == q

\* the removal with `index > 0` for `index >= 0`: the head is never removed
RemoveFirst_notHead(q, j) ==
    IF q # <<>> /\ Head(q) = j THEN q ELSE SelectSeq(q, LAMBDA x : x # j)

\* findIndex + splice(index, 1): removes the first occurrence of j
RECURSIVE RemoveFirst(_, _)
RemoveFirst(q, j) ==
    IF q = <<>> THEN <<>>
    ELSE IF Head(q) = j THEN Tail(q)
         ELSE <<Head(q)>> \o RemoveFirst(Tail(q), j)

----------------------------------------------------------------------------
\* queue/worker.ts: JobWorker, the job executor

\* Error messages: what an adapter or validator call throws, the message of
\* the default case of the switch, and the message of a failed validation.
AdapterError == "adapter call failed"
UnknownJobType == "Unknown job type"
ValidationFailed == "Metadata validation failed"

\* The job types of the cases of the switch in processJob that are modelled
SubmitIOSTypes == {"IOS_SUBMIT_APP_STORE"}

SubmitAndroidTypes == {"ANDROID_SUBMIT_PRODUCTION", "ANDROID_SUBMIT_BETA"}

ValidateTypes == {"VALIDATE_METADATA"}

\* `data.buildPath && !data.skipMetadata`
UploadsBuild(data) == data.buildPath /\ ~data.skipMetadata

\* processIOSSubmit from the point `at` up to its next awaited call (next) or
\* its return (next = "return"), on the reporter record r.
processIOSSubmit(data, r, at) ==
    CASE at = "start" ->
           [rep |-> addProgress(r, "IOS_VALIDATION_START", 10),
            next |-> "validateSubmission"]
      [] at = "validateSubmission" ->
           IF UploadsBuild(data)
           THEN [rep |-> addProgress(addProgress(r, "IOS_VALIDATION_COMPLETE", 20),
                                     "IOS_UPLOAD_START", 30),
                 next |-> "uploadBuild"]
           ELSE [rep |-> addProgress(addProgress(addProgress(r,
                             "IOS_VALIDATION_COMPLETE", 20),
                             "IOS_VERSION_SUBMITTED", 90),
                             "IOS_REVIEW_PENDING", 95),
                 next |-> "return"]
      [] at = "uploadBuild" ->
           [rep |-> addProgress(addProgress(r, "IOS_UPLOAD_COMPLETE", 60),
                                "IOS_BUILD_PROCESSING", 70),
            next |-> "waitForBuildProcessing"]
      [] at = "waitForBuildProcessing" ->
           [rep |-> addProgress(addProgress(addProgress(r,
                        "IOS_BUILD_PROCESSED", 80),
                        "IOS_VERSION_SUBMITTED", 90),
                        "IOS_REVIEW_PENDING", 95),
            next |-> "return"]

\* processAndroidSubmit announcing the track assignment before the edit exists
processAndroidSubmit_assignsBeforeEdit(data, r, at) ==
    CASE at = "start" ->
           [rep |-> addProgress(r, "ANDROID_VALIDATION_START", 10),
            next |-> "validateSubmission"]
      [] at = "validateSubmission" ->
           IF UploadsBuild(data)
           THEN [rep |-> addProgress(addProgress(r, "ANDROID_VALIDATION_COMPLETE", 20),
                                     "ANDROID_UPLOAD_START", 30),
                 next |-> "uploadBuild"]
           ELSE [rep |-> addProgress(r, "ANDROID_VALIDATION_COMPLETE", 20),
                 next |-> "return"]
      [] at = "uploadBuild" ->
           [rep |-> addProgress(addProgress(r, "ANDROID_UPLOAD_COMPLETE", 60),
                                "ANDROID_TRACK_ASSIGNED", 75),
            next |-> "assignToTrack"]
      [] at = "assignToTrack" ->
           [rep |-> addProgress(r, "ANDROID_EDIT_CREATED", 65),
            next |-> "createEdit"]
      [] at = "createEdit" ->
           [rep |-> addProgress(r, "ANDROID_RELEASE_NOTES_ADDED", 80),
            next |-> "addReleaseNotes"]
      [] at = "addReleaseNotes" ->
           [rep |-> addProgress(r, "ANDROID_EDIT_COMMITTED", 85),
            next |-> "commitEdit"]
      [] at = "commitEdit" ->
           IF data.track = "production" /\ data.userFraction > 0
           THEN [rep |-> addProgress(r, "ANDROID_ROLLOUT_STARTED", 90),
                 next |-> "return"]
           ELSE [rep |-> r, next |-> "return"]

\* processAndroidSubmit, in the same way
processAndroidSubmit(data, r, at) ==
    CASE at = "start" ->
           [rep |-> addProgress(r, "ANDROID_VALIDATION_START", 10),
            next |-> "validateSubmission"]
      [] at = "validateSubmission" ->
           IF UploadsBuild(data)
           THEN [rep |-> addProgress(addProgress(r, "ANDROID_VALIDATION_COMPLETE", 20),
                                     "ANDROID_UPLOAD_START", 30),
                 next |-> "uploadBuild"]
           ELSE [rep |-> addProgress(r, "ANDROID_VALIDATION_COMPLETE", 20),
                 next |-> "return"]
      [] at = "uploadBuild" ->
           [rep |-> addProgress(addProgress(r, "ANDROID_UPLOAD_COMPLETE", 60),
                                "ANDROID_EDIT_CREATED", 65),
            next |-> "createEdit"]
      [] at = "createEdit" ->
           [rep |-> addProgress(r, "ANDROID_TRACK_ASSIGNED", 75),
            next |-> "assignToTrack"]
      [] at = "assignToTrack" ->
           [rep |-> addProgress(r, "ANDROID_RELEASE_NOTES_ADDED", 80),
            next |-> "addReleaseNotes"]
      [] at = "addReleaseNotes" ->
           [rep |-> addProgress(r, "ANDROID_EDIT_COMMITTED", 85),
            next |-> "commitEdit"]
      [] at = "commitEdit" ->
           IF data.track = "production" /\ data.userFraction > 0
           THEN [rep |-> addProgress(r, "ANDROID_ROLLOUT_STARTED", 90),
                 next |-> "return"]
           ELSE [rep |-> r, next |-> "return"]

\* processValidateMetadata: one awaited call, no progress events
processValidateMetadata(r, at) ==
    IF at = "start"
    THEN [rep |-> r, next |-> "runPreflightValidations"]
    ELSE [rep |-> r, next |-> "return"]

\* processJob after the switch: the result is stored and reported
\* (incrementJobCounter only counts finished jobs per type; nothing reads it)
processJobTail(d, r, result) ==
    IF result.success
    THEN [job |-> [d EXCEPT !.status = "SUCCEEDED"],
          rep |-> setJobResult(r, TRUE, <<>>),
          threw |-> FALSE]
    ELSE [job |-> [d EXCEPT !.status = "FAILED"],
          rep |-> setJobResult(r, FALSE,
                      IF result.error # "" THEN <<result.error>> ELSE <<>>),
          threw |-> FALSE]

\* a catch that only logs the error: no result is stored
processJobCatch_swallows(d, r, signalAborted, message) ==
    IF signalAborted
    THEN [job |-> [d EXCEPT !.status = "CANCELLED"], rep |-> r, threw |-> FALSE]
    ELSE [job |-> d, rep |-> r, threw |-> FALSE]

\* the catch treating an aborted attempt as a failure and throwing it on
processJobCatch_rethrows(d, r, signalAborted, message) ==
    IF signalAborted
    THEN [job |-> [d EXCEPT !.status = "FAILED"], rep |-> r, threw |-> TRUE]
    ELSE processJobTail(d, r, createJobErrorResult(message))

\* processJob's catch around the switch: an error thrown by a step
processJobCatch(d, r, signalAborted, message) ==
    IF signalAborted
    THEN [job |-> [d EXCEPT !.status = "CANCELLED"], rep |-> r, threw |-> FALSE]
    ELSE processJobTail(d, r, createJobErrorResult(message))

\* the worker counting a retry for every failed job, thrown or not, without
\* looking at the budget
processNextJobCatch_countsFailures(d, r, threw, message) ==
    IF threw \/ d.status = "FAILED"
    THEN [job |-> [d EXCEPT !.retryCount = @ + 1], rep |-> r, retry |-> TRUE]
    ELSE [job |-> d, rep |-> r, retry |-> FALSE]

\* a catch that computes the delay from the count before its increment
processNextJobCatch_delayBeforeIncrement(d, r, threw, message) ==
    IF threw
    THEN IF shouldRetryJob(d)
         THEN [job |-> [d EXCEPT !.retryCount = @ + 1], rep |-> r, retry |-> TRUE,
               delay |-> calculateRetryDelay(d.retryCount, NoBaseDelay)]
         ELSE [job |-> [d EXCEPT !.status = "FAILED"],
               rep |-> setJobResult(r, FALSE, <<message>>),
               retry |-> FALSE]
    ELSE [job |-> d, rep |-> r, retry |-> FALSE]

\* processNextJob after `await this.processJob(...)`: its catch (when
\* processJob threw) without the finally block; `delay` is the
\* delay given to setTimeout
processNextJobCatch(d, r, threw, message) ==
    IF threw
    THEN IF shouldRetryJob(d)
         THEN [job |-> [d EXCEPT !.retryCount = @ + 1], rep |-> r, retry |-> TRUE,
               delay |-> calculateRetryDelay(d.retryCount + 1, NoBaseDelay)]
         ELSE [job |-> [d EXCEPT !.status = "FAILED"],
               rep |-> setJobResult(r, FALSE, <<message>>),
               retry |-> FALSE]
    ELSE [job |-> d, rep |-> r, retry |-> FALSE]

\* the end of an attempt without the finally block: the job stays among the
\* active jobs
EndAttempt_withoutFinally(j, out, message) ==
    LET fin == processNextJobCatch(out.job, out.rep, out.threw, message)
    IN  /\ job' = [job EXCEPT ![j] = fin.job]
        /\ rep' = [rep EXCEPT ![j] = fin.rep]
        /\ retryTimers' = IF fin.retry THEN retryTimers \cup {j} ELSE retryTimers
        /\ activeJobs' = activeJobs
        /\ pc' = [pc EXCEPT ![j] = "none"]

\* The end of an attempt of job j: processJob came back with `out`; then the
\* catch and the finally block of processNextJob.  The catch is the only
\* place that schedules a re-enqueue (setTimeout); processJob catches every
\* error of its steps itself, so `out.threw` is never TRUE and no timer is
\* ever pending: the timer callback has no action of its own.
EndAttempt(j, out, message) ==
    LET fin == processNextJobCatch(out.job, out.rep, out.threw, message)
    IN  /\ job' = [job EXCEPT ![j] = fin.job]
        /\ rep' = [rep EXCEPT ![j] = fin.rep]
        /\ retryTimers' = IF fin.retry THEN retryTimers \cup {j} ELSE retryTimers
        /\ activeJobs' = activeJobs \ {j}
        /\ pc' = [pc EXCEPT ![j] = "none"]

\* An attempt of job j goes on to its next awaited call
Suspend(j, d, r, next) ==
    /\ job' = [job EXCEPT ![j] = d]
    /\ rep' = [rep EXCEPT ![j] = r]
    /\ pc' = [pc EXCEPT ![j] = next]
    /\ UNCHANGED <<retryTimers, activeJobs>>

\* The step function of job j's type, resumed at `at`
Resume(d, r, at) ==
    CASE d.type \in SubmitIOSTypes -> processIOSSubmit(d.data, r, at)
      [] d.type \in SubmitAndroidTypes -> processAndroidSubmit(d.data, r, at)
      [] d.type \in ValidateTypes -> processValidateMetadata(r, at)

----------------------------------------------------------------------------
NoJob == createJob("NONE", FullBuild, 0, 0)

\* What an observer of job j has seen: how the last awaited call of its attempt
\* ended (lastEv), the number of adapter and validator calls made for it, and
\* whether cancelJob was called on it while it was queued or running, and
\* whether stop was called while it was among the active jobs.
NoObs == [lastEv |-> "none", calls |-> 0, cancelledQueued |-> FALSE,
          cancelledRunning |-> FALSE, stoppedInFlight |-> FALSE]

NoCall == [fn |-> "none"]

NoRet == [done |-> FALSE]

NoPoll == [at |-> "idle", attempts |-> 0, checks |-> 0, aborted |-> FALSE,
           lastStatus |-> "none"]

Init ==
    /\ processing = FALSE
    /\ intervalId = FALSE
    /\ queue = <<>>
    /\ activeJobs = {}
    /\ job = [j \in JobIds |-> NoJob]
    /\ rep = [j \in JobIds |-> NoRecord]
    /\ pc = [j \in JobIds |-> "none"]
    /\ aborted = [j \in JobIds |-> FALSE]
    /\ retryTimers = {}
    /\ nextId = 1
    /\ obs = [j \in JobIds |-> NoObs]
    /\ noopCancel = FALSE
    /\ arrival = [j \in JobIds |-> 0]
    /\ call = NoCall
    /\ ret = NoRet
    /\ poll = NoPoll

\* a start() that sets no interval timer
Start_withoutInterval ==
    /\ IF processing
       THEN UNCHANGED <<processing, intervalId>>
       ELSE processing' = TRUE /\ intervalId' = intervalId
    /\ UNCHANGED <<queue, activeJobs, job, rep, pc, aborted, retryTimers, nextId, obs, noopCancel>>
    /\ UNCHANGED componentVars

\* JobWorker.start
Start ==
    /\ IF processing
       THEN UNCHANGED <<processing, intervalId>>
       ELSE processing' = TRUE /\ intervalId' = TRUE
    /\ UNCHANGED <<queue, activeJobs, job, rep, pc, aborted, retryTimers, nextId, obs, noopCancel>>
    /\ UNCHANGED componentVars

\* a stop() that also empties the queue and cancels the jobs it held
Stop_cancelsQueued ==
    /\ processing' = FALSE
    /\ intervalId' = FALSE
    /\ aborted' = [j \in JobIds |-> IF j \in activeJobs THEN TRUE ELSE aborted[j]]
    /\ rep' = [j \in JobIds |->
                 IF j \in activeJobs \/ InQueue(queue, j)
                 THEN reporterCancelJob(rep[j]) ELSE rep[j]]
    /\ activeJobs' = {}
    /\ queue' = <<>>
    /\ obs' = [j \in JobIds |->
                 [obs[j] EXCEPT !.stoppedInFlight = @ \/ j \in activeJobs]]
    /\ UNCHANGED <<job, pc, retryTimers, nextId, noopCancel>>
    /\ UNCHANGED componentVars

\* JobWorker.stop
Stop ==
    /\ processing' = FALSE
    /\ intervalId' = FALSE
    /\ aborted' = [j \in JobIds |-> IF j \in activeJobs THEN TRUE ELSE aborted[j]]
    /\ rep' = [j \in JobIds |->
                 IF j \in activeJobs THEN reporterCancelJob(rep[j]) ELSE rep[j]]
    /\ activeJobs' = {}
    /\ obs' = [j \in JobIds |->
                 [obs[j] EXCEPT !.stoppedInFlight = @ \/ j \in activeJobs]]
    /\ UNCHANGED <<queue, job, pc, retryTimers, nextId, noopCancel>>
    /\ UNCHANGED componentVars

\* JobWorker.submitJob with a job made by createJob
SubmitJob(type, data, priority, maxRetries) ==
    /\ nextId <= MaxJobs
    /\ LET j == nextId
           d == createJob(type, data, priority, maxRetries)
           defs == [job EXCEPT ![j] = d]
       IN  /\ job' = defs
           /\ queue' = enqueue(queue, j, [i \in JobIds |-> defs[i].priority])
           /\ rep' = [rep EXCEPT ![j] = reporterCreateJob]
    /\ nextId' = nextId + 1
    /\ UNCHANGED <<processing, intervalId, activeJobs, pc, aborted, retryTimers, obs, noopCancel>>
    /\ UNCHANGED componentVars

\* JobWorker.cancelJob
CancelJob(j) ==
    /\ aborted' = IF j \in activeJobs THEN [aborted EXCEPT ![j] = TRUE] ELSE aborted
    /\ activeJobs' = activeJobs \ {j}
    /\ queue' = RemoveFirst(queue, j)
    /\ rep' = [rep EXCEPT ![j] = IF @.status = "NONE" THEN @ ELSE reporterCancelJob(@)]
    /\ obs' = [obs EXCEPT ![j].cancelledQueued = @ \/ InQueue(queue, j),
                          ![j].cancelledRunning = @ \/ rep[j].status = "RUNNING"]
    /\ noopCancel' = (noopCancel \/ rep[j].status \in TerminalStatuses)
    /\ UNCHANGED <<processing, intervalId, job, pc, retryTimers, nextId>>
    /\ UNCHANGED componentVars

\* JobWorker.getStatistics
getStatistics ==
    [queueLength |-> Len(queue), activeJobs |-> Cardinality(activeJobs),
     processing |-> processing]

\* JobWorker.processNextJob, called by the interval timer: dequeues a job and
\* runs processJob up to its first awaited call.  The signal of the fresh
\* AbortController is not aborted, so processJob's first check passes.  A job
\* type without a case throws inside the switch before any await: its attempt
\* ends within this handler.
ProcessNextJob ==
    /\ intervalId
    /\ IF ~processing \/ queue = <<>>
       THEN UNCHANGED <<queue, activeJobs, job, rep, pc, aborted, retryTimers, obs>>
       ELSE LET j == dequeue(queue).job
                d == [job[j] EXCEPT !.status = "RUNNING"]
                r == updateJobStatus(rep[j], "RUNNING")
            IN  /\ queue' = dequeue(queue).queue
                /\ aborted' = [aborted EXCEPT ![j] = FALSE]
                /\ IF d.type \in SubmitIOSTypes \cup SubmitAndroidTypes \cup ValidateTypes
                   THEN LET go == Resume(d, r, "start")
                        IN  /\ job' = [job EXCEPT ![j] = d]
                            /\ rep' = [rep EXCEPT ![j] = go.rep]
                            /\ pc' = [pc EXCEPT ![j] = go.next]
                            /\ activeJobs' = activeJobs \cup {j}
                            /\ retryTimers' = retryTimers
                            /\ obs' = [obs EXCEPT ![j].calls = @ + 1, ![j].lastEv = "none"]
                   ELSE /\ EndAttempt(j, processJobCatch(d, r, FALSE, UnknownJobType),
                                      UnknownJobType)
                        /\ obs' = [obs EXCEPT ![j].lastEv = "throw"]
    /\ UNCHANGED <<processing, intervalId, nextId, noopCancel>>
    /\ UNCHANGED componentVars

\* The awaited call of job j's attempt returns normally
StepReturns(j) ==
    /\ pc[j] # "none"
    /\ LET go == Resume(job[j], rep[j], pc[j])
       IN  IF go.next = "return"
           THEN /\ EndAttempt(j, processJobTail(job[j], go.rep, createJobResult), "")
                /\ obs' = [obs EXCEPT ![j].lastEv = "ok"]
           ELSE /\ Suspend(j, job[j], go.rep, go.next)
                /\ obs' = [obs EXCEPT ![j].lastEv = "ok", ![j].calls = @ + 1]
    /\ UNCHANGED <<processing, intervalId, queue, aborted, nextId, noopCancel>>
    /\ UNCHANGED componentVars

\* The awaited call of job j's attempt throws
StepThrows(j) ==
    /\ pc[j] # "none"
    /\ EndAttempt(j, processJobCatch(job[j], rep[j], aborted[j], AdapterError), AdapterError)
    /\ obs' = [obs EXCEPT ![j].lastEv = "throw"]
    /\ UNCHANGED <<processing, intervalId, queue, aborted, nextId, noopCancel>>
    /\ UNCHANGED componentVars

\* runPreflightValidations returns an invalid result: the handler returns
\* createJobErrorResult
ValidationFails(j) ==
    /\ pc[j] = "runPreflightValidations"
    /\ EndAttempt(j, processJobTail(job[j], rep[j], createJobErrorResult(ValidationFailed)),
                  ValidationFailed)
    /\ obs' = [obs EXCEPT ![j].lastEv = "error"]
    /\ UNCHANGED <<processing, intervalId, queue, aborted, nextId, noopCancel>>
    /\ UNCHANGED componentVars

Next ==
    \/ Start
    \/ Stop
    \/ \E inp \in JobInputs : SubmitJob(inp[1], inp[2], inp[3], inp[4])
    \/ \E j \in JobIds : CancelJob(j)
    \/ ProcessNextJob
    \/ \E j \in JobIds : StepReturns(j)
    \/ \E j \in JobIds : StepThrows(j)
    \/ \E j \in JobIds : ValidationFails(j)

Spec == Init /\ [][Next]_vars

----------------------------------------------------------------------------
\* One submission of every kind the handlers distinguish, run by the same
\* worker: iOS with and without a build to upload, Android with and without
\* a build, on the production track with and without a staged rollout and on
\* another track, next to the jobs of JobInputs.
SubmissionInputs ==
    JobInputs \cup
    { <<"IOS_SUBMIT_APP_STORE", JobData(FALSE, FALSE, "none", 0), NORMAL, 2>>,
      <<"IOS_SUBMIT_APP_STORE", JobData(TRUE, TRUE, "none", 0), NORMAL, 2>>,
      <<"ANDROID_SUBMIT_PRODUCTION", JobData(TRUE, FALSE, "production", 10), HIGH, 2>>,
      <<"ANDROID_SUBMIT_PRODUCTION", JobData(TRUE, FALSE, "production", 0), HIGH, 2>>,
      <<"ANDROID_SUBMIT_BETA", JobData(TRUE, FALSE, "beta", 10), NORMAL, 0>>,
      <<"ANDROID_SUBMIT_BETA", JobData(FALSE, FALSE, "beta", 0), NORMAL, 0>> }

\* submitJob of the first and only job
SubmitOneJob(type, data, priority, maxRetries) ==
    /\ nextId = 1
    /\ SubmitJob(type, data, priority, maxRetries)

SubmissionNext ==
    \/ Start
    \/ Stop
    \/ \E inp \in SubmissionInputs : SubmitOneJob(inp[1], inp[2], inp[3], inp[4])
    \/ \E j \in JobIds : CancelJob(j)
    \/ ProcessNextJob
    \/ \E j \in JobIds : StepReturns(j)
    \/ \E j \in JobIds : StepThrows(j)
    \/ \E j \in JobIds : ValidationFails(j)

SubmissionSpec == Init /\ [][SubmissionNext]_vars

----------------------------------------------------------------------------
\* The worker while stop() is not called: the interval timer keeps firing
\* processNextJob once start() has set it, and an awaited adapter or
\* validator call comes back, by returning or by throwing.

\* the awaited call of job j's attempt settles
StepSettles(j) == StepReturns(j) \/ StepThrows(j)

\* A submission with a build (three awaited calls, the polling among them)
\* and a job type without a handler (no awaited call)
RunningInputs ==
    { <<"IOS_SUBMIT_APP_STORE", FullBuild, HIGH, 2>>,
      <<"IOS_METADATA_UPDATE", FullBuild, NORMAL, 0>> }

RunningNext ==
    \/ Start
    \/ \E inp \in RunningInputs : SubmitJob(inp[1], inp[2], inp[3], inp[4])
    \/ \E j \in JobIds : CancelJob(j)
    \/ ProcessNextJob
    \/ \E j \in JobIds : StepReturns(j)
    \/ \E j \in JobIds : StepThrows(j)

RunningSpec ==
    /\ Init /\ [][RunningNext]_vars
    /\ WF_vars(ProcessNextJob)
    /\ \A j \in JobIds : WF_vars(StepSettles(j))

----------------------------------------------------------------------------
\* The Status Reporter as a component: its public methods called in any
\* order on the record of one job.  A method called with an id that has no
\* record returns without doing anything.

JobStatuses == {"QUEUED", "RUNNING", "WAITING", "SUCCEEDED", "FAILED", "CANCELLED"}

\* The results given to setJobResult: <<success, errors>>
ResultInputs == { <<TRUE, <<>>>>, <<FALSE, <<AdapterError>>>> }

\* `if (!job) return`: r is what the method makes of the record, if there is one
IfRecord(old, r) == IF old.status = "NONE" THEN old ELSE r

ReporterCreateJob ==
    /\ nextId = 1
    /\ rep' = [rep EXCEPT ![nextId] = reporterCreateJob]
    /\ nextId' = nextId + 1
    /\ UNCHANGED <<processing, intervalId, queue, activeJobs, job, pc, aborted,
                   retryTimers, obs, noopCancel>>
    /\ UNCHANGED componentVars

ReporterUpdateJobStatus(j, status) ==
    /\ Len(rep[j].statuses) <= MaxCalls
    /\ rep' = [rep EXCEPT ![j] = IfRecord(@, updateJobStatus(@, status))]
    /\ UNCHANGED <<processing, intervalId, queue, activeJobs, job, pc, aborted,
                   retryTimers, nextId, obs, noopCancel>>
    /\ UNCHANGED componentVars

ReporterSetJobResult(j, success, errors) ==
    /\ Len(rep[j].statuses) <= MaxCalls
    /\ rep' = [rep EXCEPT ![j] = IfRecord(@, setJobResult(@, success, errors))]
    /\ UNCHANGED <<processing, intervalId, queue, activeJobs, job, pc, aborted,
                   retryTimers, nextId, obs, noopCancel>>
    /\ UNCHANGED componentVars

ReporterCancelJob(j) ==
    /\ Len(rep[j].statuses) <= MaxCalls
    /\ rep' = [rep EXCEPT ![j] = IfRecord(@, reporterCancelJob(@))]
    /\ UNCHANGED <<processing, intervalId, queue, activeJobs, job, pc, aborted,
                   retryTimers, nextId, obs, noopCancel>>
    /\ UNCHANGED componentVars

ReporterNext ==
    \/ ReporterCreateJob
    \/ \E j \in JobIds, status \in JobStatuses : ReporterUpdateJobStatus(j, status)
    \/ \E j \in JobIds, res \in ResultInputs : ReporterSetJobResult(j, res[1], res[2])
    \/ \E j \in JobIds : ReporterCancelJob(j)

ReporterSpec == Init /\ [][ReporterNext]_vars

----------------------------------------------------------------------------
\* The Job Queue as a component: jobs of any priority are enqueued (by
\* submitJob, and again by the callback of a retry timer once they have been
\* dequeued), dequeued by the tick and removed by cancelJob, in any order.

QueueIds == 1..MaxQueued

Priorities == {LOW, NORMAL, HIGH, CRITICAL}

PriorityOf(defs) == [i \in QueueIds |-> defs[i].priority]

\* Number of enqueue calls so far
Enqueues ==
    IF \A j \in QueueIds : arrival[j] = 0 THEN 0
    ELSE CHOOSE n \in 1..MaxEnqueues :
             /\ \E j \in QueueIds : arrival[j] = n
             /\ \A j \in QueueIds : arrival[j] <= n

QueueInit ==
    /\ processing = FALSE
    /\ intervalId = FALSE
    /\ queue = <<>>
    /\ activeJobs = {}
    /\ job = [j \in QueueIds |-> NoJob]
    /\ rep = [j \in JobIds |-> NoRecord]
    /\ pc = [j \in JobIds |-> "none"]
    /\ aborted = [j \in JobIds |-> FALSE]
    /\ retryTimers = {}
    /\ nextId = 1
    /\ obs = [j \in JobIds |-> NoObs]
    /\ noopCancel = FALSE
    /\ arrival = [j \in QueueIds |-> 0]
    /\ call = NoCall
    /\ ret = NoRet
    /\ poll = NoPoll

\* enqueue of a new job (submitJob)
QueueEnqueue(priority) ==
    /\ nextId <= MaxQueued
    /\ Enqueues < MaxEnqueues
    /\ LET j == nextId
           defs == [job EXCEPT ![j] = createJob("VALIDATE_METADATA", FullBuild, priority, 0)]
       IN  /\ job' = defs
           /\ queue' = enqueue(queue, j, PriorityOf(defs))
           /\ arrival' = [arrival EXCEPT ![j] = Enqueues + 1]
    /\ nextId' = nextId + 1
    /\ UNCHANGED <<processing, intervalId, activeJobs, rep, pc, aborted, retryTimers,
                   obs, noopCancel, call, ret, poll>>

\* enqueue of a job that was dequeued before (the callback of the retry timer)
QueueReenqueue(j) ==
    /\ j < nextId
    /\ ~InQueue(queue, j)
    /\ Enqueues < MaxEnqueues
    /\ job' = [job EXCEPT ![j].status = "QUEUED"]
    /\ queue' = enqueue(queue, j, PriorityOf(job))
    /\ arrival' = [arrival EXCEPT ![j] = Enqueues + 1]
    /\ UNCHANGED <<processing, intervalId, activeJobs, rep, pc, aborted, retryTimers,
                   nextId, obs, noopCancel, call, ret, poll>>

\* dequeue (the tick)
QueueDequeue ==
    /\ queue # <<>>
    /\ queue' = dequeue(queue).queue
    /\ UNCHANGED <<processing, intervalId, activeJobs, job, rep, pc, aborted,
                   retryTimers, nextId, obs, noopCancel, arrival, call, ret, poll>>

\* removal of a queued job (cancelJob)
QueueRemove(j) ==
    /\ InQueue(queue, j)
    /\ queue' = RemoveFirst(queue, j)
    /\ UNCHANGED <<processing, intervalId, activeJobs, job, rep, pc, aborted,
                   retryTimers, nextId, obs, noopCancel, arrival, call, ret, poll>>

QueueNext ==
    \/ \E priority \in Priorities : QueueEnqueue(priority)
    \/ \E j \in QueueIds : QueueReenqueue(j)
    \/ QueueDequeue
    \/ \E j \in QueueIds : QueueRemove(j)

QueueSpec == QueueInit /\ [][QueueNext]_vars

----------------------------------------------------------------------------
\* Functions called on their own: the call is drawn by the initial state and
\* applied by the action of its function.

Returns(value) == [done |-> TRUE, threw |-> FALSE, value |-> value]

Throws(message) == [done |-> TRUE, threw |-> TRUE, value |-> message]

----------------------------------------------------------------------------
\* adapters/ios-direct.ts (AppStoreConnectClient) and adapters/android-direct.ts
\* (PlayDeveloperClient): what a capability returns or throws, given the
\* submission data, isDryRun() and whether credentials are configured.  A
\* missing string field is "", a missing versionCode 0.
\* A capability without `configured` among its parameters never looks at the
\* credentials.

ascValidateSubmission(data, dryRun, configured) ==
    IF data.bundleId = "" THEN Throws("Bundle ID is required")
    ELSE IF data.version = "" \/ data.buildNumber = ""
    THEN Throws("Version and build number are required")
    ELSE IF dryRun THEN Returns("void")
    ELSE IF ~configured THEN Throws("App Store Connect credentials not configured")
    ELSE Returns("void")

ascUploadBuild(data, dryRun, configured) ==
    IF dryRun THEN Returns("dry-run-build-id")
    ELSE IF data.buildPath = "" THEN Throws("Build path is required for upload")
    ELSE IF ~configured THEN Throws("App Store Connect credentials not configured")
    ELSE Returns("build-now")

getBuildStatus(dryRun) == IF dryRun THEN "VALID" ELSE "PROCESSING"

\* waitForBuildProcessing's bound on the polls, and the mark of a signal
\* that is never aborted
maxAttempts == 60
NoAbort == -1

\* The polling loop of waitForBuildProcessing from `attempts` on; the signal
\* is aborted from the poll numbered abortAt on.
RECURSIVE pollBuildStatus(_, _, _)
pollBuildStatus(attempts, dryRun, abortAt) ==
    IF attempts < maxAttempts
    THEN IF abortAt # NoAbort /\ attempts >= abortAt
         THEN Throws("Build processing aborted")
         ELSE LET status == getBuildStatus(dryRun)
              IN  IF status = "VALID" THEN Returns("void")
                  ELSE IF status \in {"INVALID", "FAILED"}
                  THEN Throws("Build processing failed")
                  ELSE pollBuildStatus(attempts + 1, dryRun, abortAt)
    ELSE Throws("Build processing timed out")

ascWaitForBuildProcessing(dryRun, abortAt) ==
    IF dryRun THEN Returns("void") ELSE pollBuildStatus(0, dryRun, abortAt)

playValidateSubmission(data, dryRun, configured) ==
    IF data.packageName = "" THEN Throws("Package name is required")
    ELSE IF data.versionCode = 0 \/ data.versionCode <= 0
    THEN Throws("Version code must be a positive integer")
    ELSE IF dryRun THEN Returns("void")
    ELSE IF ~configured THEN Throws("Google Play credentials not configured")
    ELSE Returns("void")

playUploadBuild(data, dryRun, configured) ==
    IF dryRun THEN Returns("dry-run-upload-id")
    ELSE IF data.buildPath = "" THEN Throws("Build path is required for upload")
    ELSE IF ~configured THEN Throws("Google Play credentials not configured")
    ELSE Returns("upload-now")

playCreateEdit(dryRun, configured) ==
    IF dryRun THEN Returns("dry-run-edit-id")
    ELSE IF ~configured THEN Throws("Google Play credentials not configured")
    ELSE Returns("edit-id")

playAssignToTrack(dryRun) == IF dryRun THEN Returns("void") ELSE Returns("void")

playAddReleaseNotes(dryRun) == IF dryRun THEN Returns("void") ELSE Returns("void")

playCommitEdit(dryRun) == IF dryRun THEN Returns("void") ELSE Returns("void")

\* The capability named by a call, applied to the call's arguments
Adapter(c) ==
    CASE c.fn = "ascValidateSubmission" -> ascValidateSubmission(c.data, c.dryRun, c.configured)
      [] c.fn = "ascUploadBuild" -> ascUploadBuild(c.data, c.dryRun, c.configured)
      [] c.fn = "ascWaitForBuildProcessing" -> ascWaitForBuildProcessing(c.dryRun, c.abortAt)
      [] c.fn = "playValidateSubmission" -> playValidateSubmission(c.data, c.dryRun, c.configured)
      [] c.fn = "playUploadBuild" -> playUploadBuild(c.data, c.dryRun, c.configured)
      [] c.fn = "playCreateEdit" -> playCreateEdit(c.dryRun, c.configured)
      [] c.fn = "playAssignToTrack" -> playAssignToTrack(c.dryRun)
      [] c.fn = "playAddReleaseNotes" -> playAddReleaseNotes(c.dryRun)
      [] c.fn = "playCommitEdit" -> playCommitEdit(c.dryRun)

----------------------------------------------------------------------------
\* metadata/validator.ts.  A ValidationResult: errors are <<field, severity>>
\* entries, warnings are fields; `suggested` is suggestedBuildNumber, resp.
\* suggestedVersionCode (Null: not set).  Build numbers are decimal strings,
\* taken by their value (parseInt(s, 10)); versions are <<major, minor,
\* patch>>; userFraction is in percent (a fraction f is 100 * f).

\* null or undefined, for a number and for a version
Null == -1
NoVersion == <<>>

ValidationResult(valid, errors, warnings, suggested) ==
    [valid |-> valid, errors |-> errors, warnings |-> warnings, suggested |-> suggested]

\* `if (cond) list.push(entry)`
PushIf(cond, entry) == IF cond THEN <<entry>> ELSE <<>>

\* validateStoreMetadata, given the issues storeSchema.parse reports (their
\* paths): none when the document parses
validateStoreMetadata(issues) ==
    ValidationResult(issues = <<>>,
                     [i \in 1..Len(issues) |-> <<issues[i], "error">>], <<>>, Null)

\* The outcome of the `try` of a version check when the lookup of the last
\* remote identifiers threw
versionLookupFailed(platform, dryRun) ==
    IF dryRun
    THEN ValidationResult(TRUE, <<>>, <<platform>>, Null)
    ELSE ValidationResult(FALSE, <<<<platform, "error">>>>, <<>>, Null)

\* validateIOSVersioning; lookup is what getLastVersion and getLastBuildNumber
\* came back with
validateIOSVersioning(version, buildNumber, dryRun, lookup) ==
    IF lookup.threw THEN versionLookupFailed("ios", dryRun)
    ELSE LET lastVersion == lookup.value.version
             lastBuildNum == IF lookup.value.buildNumber = Null THEN 0
                             ELSE lookup.value.buildNumber
             stale == lastVersion # NoVersion /\ version = lastVersion
                      /\ buildNumber <= lastBuildNum
             decreased == /\ lastVersion # NoVersion
                          /\ \/ version[1] < lastVersion[1]
                             \/ version[1] = lastVersion[1] /\ version[2] < lastVersion[2]
         IN  ValidationResult(~stale,
                 PushIf(stale, <<"ios.buildNumber", "error">>)
                   \o PushIf(decreased, <<"ios.version", "warning">>),
                 <<>>,
                 IF stale THEN lastBuildNum + 1 ELSE Null)

\* a check that lets the last remote version code through again
validateAndroidVersioning_acceptsEqual(versionCode, dryRun, lookup) ==
    IF lookup.threw THEN versionLookupFailed("android", dryRun)
    ELSE LET lastVersionCode == lookup.value
             stale == lastVersionCode \notin {Null, 0} /\ versionCode < lastVersionCode
         IN  ValidationResult(~stale, PushIf(stale, <<"android.versionCode", "error">>),
                              <<>>, IF stale THEN lastVersionCode + 1 ELSE Null)

\* validateAndroidVersioning; lookup is what getLastVersionCode came back with
validateAndroidVersioning(versionCode, dryRun, lookup) ==
    IF lookup.threw THEN versionLookupFailed("android", dryRun)
    ELSE LET lastVersionCode == lookup.value
             stale == lastVersionCode \notin {Null, 0} /\ versionCode <= lastVersionCode
         IN  ValidationResult(~stale, PushIf(stale, <<"android.versionCode", "error">>),
                              <<>>, IF stale THEN lastVersionCode + 1 ELSE Null)

\* validateMetadataCompleteness.  The document's fields by what the checks
\* look at: a string by its length (0: empty or missing), a list by its
\* length (collectedData Null: no dataSafety).
validateMetadataCompleteness(m) ==
    ValidationResult(TRUE,
        PushIf(m.contactEmail = 0, <<"ios.reviewInformation.contactEmail", "error">>)
          \o PushIf(m.description < 10, <<"ios.appInformation.description", "error">>)
          \o PushIf(m.iosPrivacyPolicyUrl = 0, <<"ios.appInformation.privacyPolicyUrl", "error">>)
          \o PushIf(m.iphone67 < 3, <<"ios.screenshots.iphone67", "error">>)
          \o PushIf(m.title = 0 \/ m.title > 30, <<"android.listing.title", "error">>)
          \o PushIf(m.androidPrivacyPolicyUrl = 0, <<"android.listing.privacyPolicyUrl", "error">>)
          \o PushIf(m.collectedData = Null \/ m.collectedData = 0,
                    <<"android.dataSafety", "error">>),
        PushIf(m.shortDescription # 80, "android.listing.shortDescription"),
        Null)

validateExportCompliance(usesEncryption, isExempt) ==
    ValidationResult(TRUE, <<>>,
                     PushIf(usesEncryption /\ ~isExempt, "ios.exportCompliance"), Null)

validateStagedRollout(track, userFraction) ==
    ValidationResult(TRUE,
        PushIf(track = "production" /\ (userFraction <= 0 \/ userFraction > 100),
               <<"android.userFraction", "error">>),
        PushIf(track # "production" /\ userFraction > 0, "android.userFraction"),
        Null)

\* runPreflightValidations on a document m; the lookups are what the store
\* clients came back with
runPreflightValidations(m, dryRun, iosLookup, androidLookup) ==
    LET results ==
          [schema |-> validateStoreMetadata(m.issues),
           completeness |-> validateMetadataCompleteness(m.fields),
           iosVersion |-> validateIOSVersioning(m.version, m.buildNumber, dryRun, iosLookup),
           androidVersion |-> validateAndroidVersioning(m.versionCode, dryRun, androidLookup),
           exportCompliance |-> validateExportCompliance(m.usesEncryption, m.isExempt),
           stagedRollout |-> validateStagedRollout(m.track,
                                IF m.userFraction = Null THEN 0 ELSE m.userFraction)]
    IN  [valid |-> /\ results.schema.valid /\ results.completeness.valid
                   /\ results.iosVersion.valid /\ results.androidVersion.valid
                   /\ results.exportCompliance.valid /\ results.stagedRollout.valid,
         results |-> results]

\* index.ts: runPreflightSync, the flat result made of the composite one
runPreflightSync(m, dryRun, iosLookup, androidLookup) ==
    LET result == runPreflightValidations(m, dryRun, iosLookup, androidLookup)
        fieldsOf(errors) == [i \in 1..Len(errors) |-> errors[i][1]]
    IN  [valid |-> result.valid,
         errors |-> fieldsOf(result.results.schema.errors)
                      \o fieldsOf(result.results.completeness.errors)
                      \o fieldsOf(result.results.iosVersion.errors)
                      \o fieldsOf(result.results.androidVersion.errors),
         warnings |-> result.results.schema.warnings
                        \o result.results.completeness.warnings
                        \o result.results.iosVersion.warnings
                        \o result.results.androidVersion.warnings,
         data |-> result.results]

\* The check named by a call, applied to the call's arguments
Validator(c) ==
    CASE c.fn = "validateStoreMetadata" -> validateStoreMetadata(c.issues)
      [] c.fn = "validateMetadataCompleteness" -> validateMetadataCompleteness(c.fields)
      [] c.fn = "validateIOSVersioning" ->
           validateIOSVersioning(c.version, c.buildNumber, c.dryRun, c.lookup)
      [] c.fn = "validateAndroidVersioning" ->
           validateAndroidVersioning(c.versionCode, c.dryRun, c.lookup)
      [] c.fn = "validateExportCompliance" ->
           validateExportCompliance(c.usesEncryption, c.isExempt)
      [] c.fn = "validateStagedRollout" -> validateStagedRollout(c.track, c.userFraction)
      [] c.fn = "runPreflightValidations" ->
           runPreflightValidations(c.metadata, c.dryRun, c.iosLookup, c.androidLookup)
      [] c.fn = "runPreflightSync" ->
           runPreflightSync(c.metadata, c.dryRun, c.iosLookup, c.androidLookup)

----------------------------------------------------------------------------
\* The calls FnSpec draws

IOSData ==
    [bundleId : {"", "com.example.app"}, version : {"", "1.0.0"},
     buildNumber : {"", "1"}, buildPath : {"", "build/app.ipa"}]

AndroidData ==
    [packageName : {"", "com.example.app"}, versionCode : {-1, 0, 1},
     buildPath : {"", "build/app.aab"}]

AdapterCalls ==
    [fn : {"ascValidateSubmission", "ascUploadBuild"}, data : IOSData,
     dryRun : BOOLEAN, configured : BOOLEAN]
    \cup [fn : {"ascWaitForBuildProcessing"}, dryRun : BOOLEAN, configured : BOOLEAN,
          abortAt : {NoAbort, 0, 1, maxAttempts - 1}]
    \cup [fn : {"playValidateSubmission", "playUploadBuild"}, data : AndroidData,
          dryRun : BOOLEAN, configured : BOOLEAN]
    \cup [fn : {"playCreateEdit"}, dryRun : BOOLEAN, configured : BOOLEAN]
    \cup [fn : {"playAssignToTrack", "playAddReleaseNotes", "playCommitEdit"},
          dryRun : BOOLEAN, configured : BOOLEAN]

BaseDelays == {NoBaseDelay, 0, 1, 500, DefaultBaseDelay}

CalculateRetryDelayCalls ==
    [fn : {"calculateRetryDelay"}, retryCount : 0..MaxRetryCount, baseDelay : BaseDelays]

\* The reporter's Map after n jobs were created one after the other, the
\* i-th at time createdAt[i]: the clock does not go back, and two jobs can be
\* created within the same millisecond.
JobMaps ==
    UNION { { [i \in 1..n |-> [id |-> i, createdAt |-> t[i]]] :
              t \in { u \in [1..n -> 1..MaxClock] :
                         \A i \in 1..n : i < n => u[i] <= u[i + 1] } } :
            n \in 0..MaxRecords }

CleanupOldJobsCalls ==
    [fn : {"cleanupOldJobs"}, jobs : JobMaps, keepCount : 0..(MaxRecords + 1)]

\* Largest build number and version code submitted; the last remote ones
\* are smaller, so that identifiers below, at and above them occur.
MaxIdentifier == 3

Versions == {<<1, 0, 0>>, <<1, 1, 0>>, <<0, 9, 0>>}

\* What the lookups of the last remote identifiers come back with: the error
\* of a client without credentials, nothing known, or the identifiers (the
\* clients answer 1.0.0, build 1 and version code 1 in dry-run mode).
IOSLookups ==
    {Throws("App Store Connect credentials not configured"),
     Returns([version |-> NoVersion, buildNumber |-> Null])}
    \cup {Returns([version |-> <<1, 0, 0>>, buildNumber |-> b]) :
             b \in {Null} \cup 1..(MaxIdentifier - 1)}

AndroidLookups ==
    {Throws("Google Play credentials not configured"), Returns(Null)}
    \cup {Returns(n) : n \in 1..(MaxIdentifier - 1)}

\* A document that passes every completeness check, and the documents the
\* checks tell apart
CompleteFields ==
    [contactEmail |-> 14, description |-> 10, iosPrivacyPolicyUrl |-> 27, iphone67 |-> 3,
     title |-> 30, shortDescription |-> 80, androidPrivacyPolicyUrl |-> 27,
     collectedData |-> 1]

FieldsInputs ==
    [contactEmail : {0, 14}, description : {0, 9, 10}, iosPrivacyPolicyUrl : {0, 27},
     iphone67 : {2, 3}, title : {0, 30, 31}, shortDescription : {0, 80},
     androidPrivacyPolicyUrl : {0, 27}, collectedData : {Null, 0, 1}]

\* userFraction in percent: 0, 0.5, 1 and 1.5
Fractions == {0, 50, 100, 150}

\* Documents given to the composite check: every category passing or not,
\* independently of the others
PreflightDocs ==
    [issues : {<<>>, <<"ios.bundleId">>},
     fields : {CompleteFields, [CompleteFields EXCEPT !.contactEmail = 0]},
     version : {<<1, 0, 0>>}, buildNumber : {1, 2}, versionCode : {1, 2},
     usesEncryption : BOOLEAN, isExempt : {FALSE},
     track : {"production", "beta"}, userFraction : {Null, 50}]

ValidatorCalls ==
    [fn : {"validateStoreMetadata"},
     issues : {<<>>, <<"ios.bundleId">>, <<"ios.bundleId", "android.track">>}]
    \cup [fn : {"validateMetadataCompleteness"}, fields : FieldsInputs]
    \cup [fn : {"validateIOSVersioning"}, version : Versions,
          buildNumber : 0..MaxIdentifier, dryRun : BOOLEAN, lookup : IOSLookups]
    \cup [fn : {"validateAndroidVersioning"}, versionCode : 0..MaxIdentifier,
          dryRun : BOOLEAN, lookup : AndroidLookups]
    \cup [fn : {"validateExportCompliance"}, usesEncryption : BOOLEAN, isExempt : BOOLEAN]
    \cup [fn : {"validateStagedRollout"}, track : {"production", "beta", "internal"},
          userFraction : Fractions]
    \cup [fn : {"runPreflightValidations", "runPreflightSync"}, metadata : PreflightDocs,
          dryRun : BOOLEAN,
          iosLookup : {Throws("App Store Connect credentials not configured"),
                       Returns([version |-> <<1, 0, 0>>, buildNumber |-> 1])},
          androidLookup : {Returns(Null), Returns(1)}]

\* The jobs the catch of processNextJob is applied to: the retries counted
\* so far, the budget (3 when left out) and the status at that point
DefaultMaxRetries == 3

CatchJobs ==
    { [createJob("IOS_SUBMIT_APP_STORE", FullBuild, NORMAL, m)
          EXCEPT !.retryCount = n, !.status = s] :
      n \in 0..MaxRetryCount, m \in {0, DefaultMaxRetries, MaxRetryCount + 1},
      s \in {"RUNNING", "FAILED"} }

ProcessNextJobCatchCalls ==
    [fn : {"processNextJobCatch"}, job : CatchJobs, threw : BOOLEAN]

\* The adapter calls a submit handler makes for a job: the job carries its
\* own dryRun flag (createJob), the handler is given job.data, the job id
\* and the signal, and the client it calls reads isDryRun() (`step.dryRun`).
HandlerSteps ==
    { c \in AdapterCalls :
        /\ c.fn \in {"ascValidateSubmission", "ascUploadBuild", "playValidateSubmission",
                      "playUploadBuild", "playCreateEdit"}
        /\ c.fn \in {"ascValidateSubmission", "ascUploadBuild"}
              => (c.data.bundleId # "" /\ c.data.version # "" /\ c.data.buildNumber # ""
                  /\ c.data.buildPath # "")
        /\ c.fn \in {"playValidateSubmission", "playUploadBuild"}
              => (c.data.packageName # "" /\ c.data.versionCode > 0
                  /\ c.data.buildPath # "") }

HandlerStepCalls == [fn : {"handlerStep"}, jobDryRun : BOOLEAN, step : HandlerSteps]

FnCalls ==
    CalculateRetryDelayCalls \cup CleanupOldJobsCalls \cup AdapterCalls \cup ValidatorCalls
    \cup ProcessNextJobCatchCalls \cup HandlerStepCalls

FnInit ==
    /\ processing = FALSE
    /\ intervalId = FALSE
    /\ queue = <<>>
    /\ activeJobs = {}
    /\ job = [j \in JobIds |-> NoJob]
    /\ rep = [j \in JobIds |-> NoRecord]
    /\ pc = [j \in JobIds |-> "none"]
    /\ aborted = [j \in JobIds |-> FALSE]
    /\ retryTimers = {}
    /\ nextId = 1
    /\ obs = [j \in JobIds |-> NoObs]
    /\ noopCancel = FALSE
    /\ arrival = [j \in JobIds |-> 0]
    /\ call \in FnCalls
    /\ ret = NoRet
    /\ poll = NoPoll

CallCalculateRetryDelay ==
    /\ call.fn = "calculateRetryDelay" /\ ~ret.done
    /\ ret' = Returns(calculateRetryDelay(call.retryCount, call.baseDelay))
    /\ UNCHANGED <<processing, intervalId, queue, activeJobs, job, rep, pc, aborted,
                   retryTimers, nextId, obs, noopCancel, arrival, call, poll>>

CallCleanupOldJobs ==
    /\ call.fn = "cleanupOldJobs" /\ ~ret.done
    /\ ret' = Returns(cleanupOldJobs(call.jobs, call.keepCount))
    /\ UNCHANGED <<processing, intervalId, queue, activeJobs, job, rep, pc, aborted,
                   retryTimers, nextId, obs, noopCancel, arrival, call, poll>>

CallAdapter ==
    /\ call \in AdapterCalls /\ ~ret.done
    /\ ret' = Adapter(call)
    /\ UNCHANGED <<processing, intervalId, queue, activeJobs, job, rep, pc, aborted,
                   retryTimers, nextId, obs, noopCancel, arrival, call, poll>>

CallValidator ==
    /\ call \in ValidatorCalls /\ ~ret.done
    /\ ret' = Returns(Validator(call))
    /\ UNCHANGED <<processing, intervalId, queue, activeJobs, job, rep, pc, aborted,
                   retryTimers, nextId, obs, noopCancel, arrival, call, poll>>

\* the catch of processNextJob on a job whose attempt has just ended
CallProcessNextJobCatch ==
    /\ call.fn = "processNextJobCatch" /\ ~ret.done
    /\ ret' = Returns(processNextJobCatch(call.job, updateJobStatus(reporterCreateJob, "RUNNING"),
                                          call.threw, AdapterError))
    /\ UNCHANGED <<processing, intervalId, queue, activeJobs, job, rep, pc, aborted,
                   retryTimers, nextId, obs, noopCancel, arrival, call, poll>>

\* `await ascClient.validateSubmission(data)` and the like in a handler
\* running a job whose dryRun flag is call.jobDryRun: the flag is not among
\* the arguments
CallHandlerStep ==
    /\ call.fn = "handlerStep" /\ ~ret.done
    /\ ret' = Adapter(call.step)
    /\ UNCHANGED <<processing, intervalId, queue, activeJobs, job, rep, pc, aborted,
                   retryTimers, nextId, obs, noopCancel, arrival, call, poll>>

FnNext ==
    \/ CallHandlerStep
    \/ CallProcessNextJobCatch
    \/ CallCalculateRetryDelay
    \/ CallCleanupOldJobs
    \/ CallAdapter
    \/ CallValidator

FnSpec == FnInit /\ [][FnNext]_vars

----------------------------------------------------------------------------
\* The polling loops (AppStoreConnectClient.waitForBuildProcessing, adapter
\* "asc", and IONEASAdapter.pollBuildStatus, adapter "eas") step by step: one
\* action per stretch of code between two awaited calls.  The status an
\* awaited getBuildStatus resolves to is the reply of the store's service:
\* any status of the method's return type (the body in the source is a stub
\* that answers PROCESSING, resp. IN_PROGRESS, outside dry-run).

BuildStatuses(adapter) ==
    IF adapter = "asc" THEN {"PROCESSING", "VALID", "INVALID", "FAILED"}
    ELSE {"NEW", "IN_PROGRESS", "FINISHED", "ERROR", "FAILED"}

\* the statuses the loop returns on, and the ones it throws on
ProcessedStatuses(adapter) ==
    IF adapter = "asc" THEN {"VALID"} ELSE {"FINISHED", "COMPLETED"}

FailedStatuses(adapter) ==
    IF adapter = "asc" THEN {"INVALID", "FAILED"} ELSE {"ERROR", "FAILED"}

ProcessingFailed(adapter) ==
    IF adapter = "asc" THEN "Build processing failed" ELSE "EAS build failed"

ProcessingTimedOut(adapter) ==
    IF adapter = "asc" THEN "Build processing timed out"
    ELSE "EAS build processing timed out"

\* a loop head that does not look at the signal
whileAttempts_ignoresSignal(adapter, p) ==
    IF p.attempts < maxAttempts
    THEN [poll |-> [p EXCEPT !.at = "getBuildStatus", !.checks = @ + 1],
          ret |-> NoRet]
    ELSE [poll |-> [p EXCEPT !.at = "done"], ret |-> Throws(ProcessingTimedOut(adapter))]

\* `while (attempts < maxAttempts)` from its condition to the awaited
\* getBuildStatus, or to the throw that ends the loop
whileAttempts(adapter, p) ==
    IF p.attempts < maxAttempts
    THEN IF p.aborted
         THEN [poll |-> [p EXCEPT !.at = "done"],
               ret |-> Throws("Build processing aborted")]
         ELSE [poll |-> [p EXCEPT !.at = "getBuildStatus", !.checks = @ + 1],
               ret |-> NoRet]
    ELSE [poll |-> [p EXCEPT !.at = "done"], ret |-> Throws(ProcessingTimedOut(adapter))]

\* the rest of the loop body once getBuildStatus has resolved to `status`
onBuildStatus(adapter, p, status) ==
    LET p1 == [p EXCEPT !.lastStatus = status]
    IN  IF status \in ProcessedStatuses(adapter)
        THEN [poll |-> [p1 EXCEPT !.at = "done"], ret |-> Returns("void")]
        ELSE IF status \in FailedStatuses(adapter)
        THEN [poll |-> [p1 EXCEPT !.at = "done"],
              ret |-> Throws(ProcessingFailed(adapter))]
        ELSE [poll |-> [p1 EXCEPT !.at = "delay"], ret |-> NoRet]

PollCalls == [fn : {"waitForBuildProcessing"}, adapter : {"asc", "eas"}, dryRun : BOOLEAN]

PollInit ==
    /\ processing = FALSE
    /\ intervalId = FALSE
    /\ queue = <<>>
    /\ activeJobs = {}
    /\ job = [j \in JobIds |-> NoJob]
    /\ rep = [j \in JobIds |-> NoRecord]
    /\ pc = [j \in JobIds |-> "none"]
    /\ aborted = [j \in JobIds |-> FALSE]
    /\ retryTimers = {}
    /\ nextId = 1
    /\ obs = [j \in JobIds |-> NoObs]
    /\ noopCancel = FALSE
    /\ arrival = [j \in JobIds |-> 0]
    /\ call \in PollCalls
    /\ ret = NoRet
    /\ poll = NoPoll

pollUnchanged ==
    UNCHANGED <<processing, intervalId, queue, activeJobs, job, rep, pc, aborted,
                retryTimers, nextId, obs, noopCancel, arrival, call>>

\* The method is called: in dry-run it returns after its simulated delay,
\* otherwise it enters the loop with attempts = 0.
WaitForBuildProcessing ==
    /\ poll.at = "idle"
    /\ IF call.dryRun
       THEN poll' = [poll EXCEPT !.at = "done"] /\ ret' = Returns("void")
       ELSE LET go == whileAttempts(call.adapter, poll)
            IN  poll' = go.poll /\ ret' = go.ret
    /\ pollUnchanged

\* The awaited getBuildStatus resolves
GetBuildStatusResolves(status) ==
    /\ poll.at = "getBuildStatus"
    /\ status \in BuildStatuses(call.adapter)
    /\ LET go == onBuildStatus(call.adapter, poll, status)
       IN  poll' = go.poll /\ ret' = go.ret
    /\ pollUnchanged

\* The 5000 ms timer fires: attempts++ and the next turn of the loop
DelayElapses ==
    /\ poll.at = "delay"
    /\ LET go == whileAttempts(call.adapter, [poll EXCEPT !.attempts = @ + 1])
       IN  poll' = go.poll /\ ret' = go.ret
    /\ pollUnchanged

\* The job's AbortController is aborted (cancelJob, stop) while the method
\* has not returned.  The EAS adapter hands its loop a controller of its own
\* that nothing aborts.
AbortSignal ==
    /\ call.adapter = "asc"
    /\ poll.at # "done"
    /\ ~poll.aborted
    /\ poll' = [poll EXCEPT !.aborted = TRUE]
    /\ UNCHANGED ret
    /\ pollUnchanged

PollProgress ==
    \/ WaitForBuildProcessing
    \/ \E status \in BuildStatuses("asc") \cup BuildStatuses("eas") :
          GetBuildStatusResolves(status)
    \/ DelayElapses

PollNext ==
    \/ WaitForBuildProcessing
    \/ \E status \in BuildStatuses("asc") \cup BuildStatuses("eas") :
          GetBuildStatusResolves(status)
    \/ DelayElapses
    \/ AbortSignal

\* Timers fire and the awaited status request resolves.
PollSpec == PollInit /\ [][PollNext]_vars /\ WF_vars(PollProgress)

----------------------------------------------------------------------------
\* Vocabulary of the properties

RECURSIVE CountTerminal(_)
CountTerminal(progress) ==
    IF progress = <<>> THEN 0
    ELSE (IF Head(progress).code \in TerminalCodes THEN 1 ELSE 0)
         + CountTerminal(Tail(progress))

Last(s) == s[Len(s)]

IsPrefix(s, t) == Len(s) <= Len(t) /\ SubSeq(t, 1, Len(s)) = s

Contains(s, x) == \E i \in 1..Len(s) : s[i] = x

\* In this step an attempt of job j ends (processJob returns to processNextJob)
AttemptEnds(j) ==
    \/ pc[j] # "none" /\ pc'[j] = "none"
    \/ pc[j] = "none" /\ pc'[j] = "none" /\ obs[j].lastEv # obs'[j].lastEv

\* ... because a call threw while the attempt's signal was not aborted, or
\* the validator returned an invalid result
AttemptFails(j) ==
    /\ AttemptEnds(j)
    /\ \/ obs'[j].lastEv = "error"
       \/ obs'[j].lastEv = "throw" /\ ~aborted[j]

\* ... because a call threw after the attempt's signal was aborted
AttemptCancelled(j) ==
    AttemptEnds(j) /\ obs'[j].lastEv = "throw" /\ aborted[j]

\* The message of the failure that ends job j's attempt in this step
FailureMessage(j) ==
    IF job[j].type = "IOS_METADATA_UPDATE" THEN UnknownJobType
    ELSE IF obs'[j].lastEv = "error" THEN ValidationFailed
    ELSE AdapterError

----------------------------------------------------------------------------
\* C1: a job's retryCount never decreases and never exceeds its maxRetries,
\* over every step of the worker.
C1_RetryCountBounded ==
    [][\A j \in JobIds :
         /\ job'[j].retryCount >= job[j].retryCount
         /\ job'[j].retryCount <= job'[j].maxRetries]_vars

\* A job with a retry budget whose attempt failed.
C1_Witness ==
    \E j \in JobIds :
        /\ job[j].maxRetries = 2
        /\ obs[j].lastEv = "throw"
        /\ rep[j].status = "FAILED"
        /\ job[j].retryCount <= job[j].maxRetries

\* C2: an attempt that fails for a reason other than cancellation while
\* retryCount < maxRetries increments retryCount, puts the job's status back
\* to QUEUED and schedules its re-enqueue.
C2_FailedAttemptIsRetried ==
    [][\A j \in JobIds :
         (AttemptFails(j) /\ job[j].retryCount < job[j].maxRetries)
         => /\ job'[j].retryCount = job[j].retryCount + 1
            /\ rep'[j].status = "QUEUED"
            /\ (j \in retryTimers' \/ InQueue(queue', j))]_vars

\* C3: an attempt that fails for a reason other than cancellation with no
\* retry budget left makes the job FAILED, records the error message in the
\* result's errors and appends a JOB_FAILED progress event.
C3_ExhaustedFailureIsRecorded ==
    [][\A j \in JobIds :
         (AttemptFails(j) /\ job[j].retryCount = job[j].maxRetries)
         => /\ rep'[j].status = "FAILED"
            /\ rep'[j].hasResult /\ ~rep'[j].success
            /\ Contains(rep'[j].errors, FailureMessage(j))
            /\ rep'[j].progress =
                 Append(rep[j].progress, [code |-> "JOB_FAILED", pct |-> NoPct])]_vars

\* A job without retry budget whose attempt threw and was recorded as failed.
C3_Witness ==
    \E j \in JobIds :
        /\ job[j].maxRetries = 0 /\ job[j].retryCount = 0
        /\ job[j].type = "VALIDATE_METADATA"
        /\ obs[j].lastEv = "throw"
        /\ rep[j].status = "FAILED"
        /\ rep[j].errors = <<AdapterError>>
        /\ Last(rep[j].progress).code = "JOB_FAILED"

\* C4: a job with maxRetries = 2 that is never cancelled and whose attempts
\* fail shows the statuses QUEUED, RUNNING, QUEUED, RUNNING, QUEUED, RUNNING
\* and then SUCCEEDED or FAILED, in this order, and ends with retryCount 2.
C4_RetryScenario ==
    \A j \in JobIds :
        (/\ job[j].maxRetries = 2
         /\ obs[j].lastEv = "throw"
         /\ pc[j] = "none"
         /\ ~Contains(rep[j].statuses, "CANCELLED"))
        => /\ \/ IsPrefix(rep[j].statuses, <<"QUEUED", "RUNNING", "QUEUED", "RUNNING",
                                             "QUEUED", "RUNNING", "SUCCEEDED">>)
              \/ IsPrefix(rep[j].statuses, <<"QUEUED", "RUNNING", "QUEUED", "RUNNING",
                                             "QUEUED", "RUNNING", "FAILED">>)
           /\ (rep[j].status \in TerminalStatuses => job[j].retryCount = 2)

\* C5: a job's progress sequence holds at most one terminal event, exactly
\* one once its status is terminal, and that event matches the status.
TerminalCodeOf(status) ==
    CASE status = "SUCCEEDED" -> "JOB_COMPLETED"
      [] status = "FAILED" -> "JOB_FAILED"
      [] status = "CANCELLED" -> "JOB_CANCELLED"

C5_OneTerminalEvent ==
    \A j \in JobIds :
        /\ CountTerminal(rep[j].progress) <= 1
        /\ rep[j].status \in TerminalStatuses
           => /\ CountTerminal(rep[j].progress) = 1
              /\ Contains(rep[j].progress,
                          [code |-> TerminalCodeOf(rep[j].status),
                           pct |-> IF rep[j].status = "SUCCEEDED" THEN 100 ELSE NoPct])

\* C6: once a job is SUCCEEDED or CANCELLED, or FAILED with no retry budget
\* left, no step changes its status.
C6_TerminalStatusIsFinal ==
    [][\A j \in JobIds :
         (\/ rep[j].status \in {"SUCCEEDED", "CANCELLED"}
          \/ rep[j].status = "FAILED" /\ job[j].retryCount >= job[j].maxRetries)
         => rep'[j].status = rep[j].status]_vars

\* C7: a job on which cancelJob was called while it was in the queue is out
\* of the queue and CANCELLED, and is never dispatched: it has never been
\* RUNNING, no adapter call was made for it, and no attempt of it is active.
C7_CancelledQueuedNeverDispatched ==
    \A j \in JobIds :
        obs[j].cancelledQueued
        => /\ ~InQueue(queue, j)
           /\ rep[j].status = "CANCELLED"
           /\ rep[j].statuses = <<"QUEUED", "CANCELLED">>
           /\ obs[j].calls = 0
           /\ pc[j] = "none" /\ j \notin activeJobs

\* A job cancelled in the queue, with the worker running and the queue drained.
C7_Witness ==
    \E j \in JobIds :
        /\ obs[j].cancelledQueued
        /\ rep[j].status = "CANCELLED"
        /\ processing /\ queue = <<>>
        /\ \E k \in JobIds : k # j /\ rep[k].status = "SUCCEEDED"

\* C8: a job on which cancelJob was called while it was RUNNING does not end
\* FAILED or SUCCEEDED, and is CANCELLED once its attempt is over.
C8_CancelledRunningEndsCancelled ==
    \A j \in JobIds :
        obs[j].cancelledRunning
        => /\ rep[j].status \notin {"FAILED", "SUCCEEDED"}
           /\ pc[j] = "none" => rep[j].status = "CANCELLED"

\* C9: cancelJob on a terminal job changes neither the job's record (status,
\* result, completedAt, progress) nor the queue nor the active jobs; and a
\* record only ever becomes CANCELLED from QUEUED, RUNNING or WAITING.
C9_CancelTerminalIsNoOp ==
    [][\A j \in JobIds :
         /\ (rep[j].status \in TerminalStatuses /\ CancelJob(j))
            => /\ rep' = rep
               /\ queue' = queue
               /\ activeJobs' = activeJobs
               /\ job' = job
         /\ (rep'[j].statuses # rep[j].statuses /\ rep'[j].status = "CANCELLED")
            => rep[j].status \in {"QUEUED", "RUNNING", "WAITING"}]_vars

\* cancelJob has been called on a terminal job.
C9_Witness ==
    /\ noopCancel
    /\ \E j \in JobIds : rep[j].status = "SUCCEEDED" /\ obs[j].lastEv = "ok"

\* C10: an attempt that ends because a call threw after the signal was
\* aborted is not retried: retryCount stays, and the job is neither in the
\* queue nor waiting for a re-enqueue.
C10_CancelledAttemptNotRetried ==
    [][\A j \in JobIds :
         AttemptCancelled(j)
         => /\ job'[j].retryCount = job[j].retryCount
            /\ ~InQueue(queue', j)
            /\ j \notin retryTimers'
            /\ job'[j].status = "CANCELLED"]_vars

\* An attempt of a job with retry budget ended on the abort.
C10_Witness ==
    \E j \in JobIds :
        /\ job[j].status = "CANCELLED"
        /\ obs[j].lastEv = "throw"
        /\ pc[j] = "none"
        /\ job[j].maxRetries = 2 /\ job[j].retryCount = 0
        /\ ~InQueue(queue, j) /\ j \notin retryTimers

\* C11: at most one dispatch attempt of a job executes at any time: a job
\* with an attempt in flight is neither in the queue nor waiting for a
\* re-enqueue, and no job is in the queue twice, so no tick can dispatch it
\* again before its attempt is over.
C11_OneAttemptPerJob ==
    /\ \A j \in JobIds :
          pc[j] # "none" => ~InQueue(queue, j) /\ j \notin retryTimers
    /\ \A i, k \in 1..Len(queue) : queue[i] = queue[k] => i = k

\* An attempt in flight on which cancelJob was called, with another job
\* queued and the timer running.
C11_Witness ==
    \E j \in JobIds :
        /\ pc[j] # "none" /\ obs[j].cancelledRunning
        /\ queue # <<>> /\ processing /\ intervalId

\* C12: after stop() the timer is released and no job is active, and every
\* job that was active when stop() was called is CANCELLED from then on.
C12_StopCancelsInFlight ==
    [][/\ Stop => (~intervalId' /\ activeJobs' = {})
       /\ \A j \in JobIds :
            obs'[j].stoppedInFlight => rep'[j].status = "CANCELLED"]_vars

\* C15: submitJob executes no part of the job: right after it the job is in
\* the queue, its record is QUEUED with the JOB_STARTED event as its only
\* progress and no result, and no attempt was started or advanced.
C15_SubmitJobOnlyEnqueues ==
    [][\A j \in JobIds :
         (nextId = j /\ nextId' = j + 1)
         => /\ InQueue(queue', j)
            /\ rep'[j].status = "QUEUED"
            /\ rep'[j].statuses = <<"QUEUED">>
            /\ rep'[j].progress = <<[code |-> "JOB_STARTED", pct |-> NoPct]>>
            /\ ~rep'[j].hasResult
            /\ rep'[j].startedAt = 0 /\ rep'[j].completedAt = 0
            /\ pc' = pc /\ activeJobs' = activeJobs
            /\ obs'[j].calls = 0]_vars

\* A job just submitted, still queued, while the worker runs another job.
C15_Witness ==
    \E j, k \in JobIds :
        /\ k # j /\ pc[k] # "none" /\ processing
        /\ InQueue(queue, j) /\ rep[j].status = "QUEUED"
        /\ Len(rep[j].progress) = 1 /\ ~rep[j].hasResult

\* C17: a job's progress sequence only grows by appending, and the
\* percentages of its events that carry one never decrease in append order.
NonDecreasing(progress) ==
    \A i, k \in 1..Len(progress) :
        (i < k /\ progress[i].pct # NoPct /\ progress[k].pct # NoPct)
        => progress[i].pct <= progress[k].pct

C17_PercentagesNonDecreasing ==
    [][\A j \in JobIds :
         /\ IsPrefix(rep[j].progress, rep'[j].progress)
         /\ NonDecreasing(rep'[j].progress)]_vars

\* An Android production submission with a staged rollout that was cancelled
\* during an awaited call and still ran to completion: every percentage of
\* the handler, an event without percentage in between, and the final 100.
C17_Witness ==
    \E j \in JobIds :
        /\ job[j].type = "ANDROID_SUBMIT_PRODUCTION"
        /\ obs[j].cancelledRunning
        /\ Contains(rep[j].progress, [code |-> "ANDROID_ROLLOUT_STARTED", pct |-> 90])
        /\ Last(rep[j].progress) = [code |-> "JOB_COMPLETED", pct |-> 100]

\* C16: a record's startedAt is set by its first transition to RUNNING and
\* no later call changes it, a later transition to RUNNING included.
C16_StartedAtSetOnce ==
    [][\A j \in JobIds :
         /\ rep[j].startedAt # 0 => rep'[j].startedAt = rep[j].startedAt
         /\ (rep[j].startedAt = 0 /\ rep'[j].startedAt # 0)
            => rep'[j].status = "RUNNING"
         /\ rep'[j].status = "RUNNING" => rep'[j].startedAt # 0]_vars

\* A record that went to RUNNING, ended, and went to RUNNING again: its
\* startedAt is still the first reading of the clock.
C16_Witness ==
    \E j \in JobIds :
        /\ rep[j].statuses = <<"QUEUED", "RUNNING", "FAILED", "RUNNING">>
        /\ rep[j].startedAt = 1 /\ rep[j].completedAt = 2

\* C18: setJobResult on a terminal job that already has a result changes
\* neither the result nor the status and appends no terminal event.
C18_SetJobResultOnce ==
    [][\A j \in JobIds, res \in ResultInputs :
         (/\ rep[j].hasResult
          /\ rep[j].status \in TerminalStatuses
          /\ ReporterSetJobResult(j, res[1], res[2]))
         => /\ rep'[j].success = rep[j].success
            /\ rep'[j].errors = rep[j].errors
            /\ rep'[j].status = rep[j].status
            /\ CountTerminal(rep'[j].progress) = CountTerminal(rep[j].progress)]_vars

\* C13: the job dequeue returns has the highest priority of the queued jobs
\* and, among the queued jobs of that priority, is the one enqueued earliest.
C13_DequeueOrder ==
    queue # <<>>
    => LET first == dequeue(queue).job
       IN  /\ InQueue(queue, first)
           /\ \A i \in 1..Len(queue) :
                 \/ job[first].priority > job[queue[i]].priority
                 \/ /\ job[first].priority = job[queue[i]].priority
                    /\ arrival[first] <= arrival[queue[i]]

\* Three queued jobs after a dequeue and a re-enqueue: the head has the
\* highest priority, and of the two others, of equal priority, the one
\* created first was enqueued last and comes last.
C13_Witness ==
    /\ Len(queue) = 3
    /\ job[queue[1]].priority > job[queue[2]].priority
    /\ job[queue[2]].priority = job[queue[3]].priority
    /\ queue[2] > queue[3]
    /\ arrival[queue[2]] < arrival[queue[3]]

\* C14: calculateRetryDelay(n, base) is base * 2^n, base being 1000 when it
\* is left out: 1000 for n = 0, 2000 for n = 1 and 8000 for n = 3.
C14_RetryDelayIsExponential ==
    (call.fn = "calculateRetryDelay" /\ ret.done)
    => LET base == IF call.baseDelay = NoBaseDelay THEN 1000 ELSE call.baseDelay
       IN  /\ ~ret.threw
           /\ ret.value = base * (2 ^ call.retryCount)
           /\ (call.baseDelay = NoBaseDelay /\ call.retryCount = 0) => ret.value = 1000
           /\ (call.baseDelay = NoBaseDelay /\ call.retryCount = 1) => ret.value = 2000
           /\ (call.baseDelay = NoBaseDelay /\ call.retryCount = 3) => ret.value = 8000

\* calculateRetryDelay(3) has returned 8000.
C14_Witness ==
    /\ call = [fn |-> "calculateRetryDelay", retryCount |-> 3, baseDelay |-> NoBaseDelay]
    /\ ret = Returns(8000)

\* C19: cleanupOldJobs(keep) leaves at most keep jobs, exactly the keep most
\* recently created ones of the jobs held before, and removes nothing when
\* there were keep jobs or fewer.
C19_CleanupKeepsMostRecent ==
    (call.fn = "cleanupOldJobs" /\ ret.done)
    => LET before == call.jobs
           n == Len(before)
           keep == call.keepCount
       IN  /\ Len(ret.value) <= keep \/ n <= keep
           /\ n <= keep => ret.value = before
           /\ n > keep => ret.value = SubSeq(before, n - keep + 1, n)

\* C20: in dry-run mode each capability a submission invokes returns a
\* placeholder result, whatever its input and whether or not credentials
\* are configured.
SubmissionCapabilities ==
    {"ascValidateSubmission", "ascUploadBuild", "ascWaitForBuildProcessing",
     "playValidateSubmission", "playUploadBuild", "playCreateEdit",
     "playAssignToTrack", "playAddReleaseNotes", "playCommitEdit"}

C20_DryRunAlwaysSucceeds ==
    (call.fn \in SubmissionCapabilities /\ ret.done /\ call.dryRun)
    => /\ ~ret.threw
       /\ ret.value \in {"void", "dry-run-build-id", "dry-run-upload-id",
                         "dry-run-edit-id"}

\* C21: outside dry-run mode a capability invoked while no credentials are
\* configured throws a "credentials not configured" error and returns no
\* result.
ConfigurationErrors ==
    {"App Store Connect credentials not configured",
     "Google Play credentials not configured"}

C21_NoCredentialsIsConfigurationError ==
    (call.fn \in SubmissionCapabilities /\ ret.done /\ ~call.dryRun /\ ~call.configured)
    => (ret.threw /\ ret.value \in ConfigurationErrors)

\* C22: the polling loop terminates: it asks for the status at most 60
\* times, asks only while the signal is not aborted and throws the abort
\* error when it finds the signal aborted at the head of a turn; it returns
\* on a processed status, throws on a failed one and throws the timeout error
\* after 60 turns.
C22_PollLoopTerminates ==
    /\ [](/\ poll.checks <= 60 /\ poll.attempts <= 60
          /\ (ret.done /\ ~call.dryRun)
             => /\ (~ret.threw) <=> poll.lastStatus \in ProcessedStatuses(call.adapter)
                /\ (ret = Throws(ProcessingFailed(call.adapter)))
                      <=> poll.lastStatus \in FailedStatuses(call.adapter)
                /\ (ret = Throws(ProcessingTimedOut(call.adapter)))
                      <=> (poll.attempts = 60 /\ poll.checks = 60
                           /\ poll.lastStatus \notin ProcessedStatuses(call.adapter)
                                                     \cup FailedStatuses(call.adapter))
                /\ (ret = Throws("Build processing aborted")) => poll.aborted)
    /\ [][/\ poll'.checks > poll.checks => ~poll.aborted
          /\ (poll.aborted /\ poll.at \in {"idle", "delay"} /\ poll'.at # poll.at
                /\ ~call.dryRun /\ poll'.attempts < 60)
             => ret' = Throws("Build processing aborted")]_vars
    /\ <>(ret.done)

\* The loop asked 60 times, was never answered with a final status and timed
\* out.
C22_Witness ==
    /\ call.adapter = "asc" /\ ~call.dryRun
    /\ poll.checks = 60 /\ poll.lastStatus = "PROCESSING"
    /\ ret = Throws("Build processing timed out")

\* C23: each of the six validation checks returns valid = false exactly when
\* its errors list holds at least one entry of severity 'error'.
ValidationChecks ==
    {"validateStoreMetadata", "validateMetadataCompleteness", "validateIOSVersioning",
     "validateAndroidVersioning", "validateExportCompliance", "validateStagedRollout"}

HasError(result) == \E i \in 1..Len(result.errors) : result.errors[i][2] = "error"

C23_ValidIffNoError ==
    (call.fn \in ValidationChecks /\ ret.done)
    => (~ret.value.valid <=> HasError(ret.value))

\* C24: the preflight result is valid exactly when none of its six
\* categories reports an error.
PreflightChecks == {"runPreflightValidations", "runPreflightSync"}

CategoryResults == IF call.fn = "runPreflightSync" THEN ret.value.data ELSE ret.value.results

C24_PreflightValidIffAllPass ==
    (call.fn \in PreflightChecks /\ ret.done)
    => (ret.value.valid
          <=> \A category \in DOMAIN CategoryResults : ~HasError(CategoryResults[category]))

\* The last remote identifier a version check was given (Null: none known),
\* the identifier submitted, and whether the submission is for the version
\* the last remote build belongs to (always, for a version code).
LastIdentifier ==
    IF call.lookup.threw THEN Null
    ELSE IF call.fn = "validateIOSVersioning" THEN call.lookup.value.buildNumber
    ELSE call.lookup.value

SubmittedIdentifier ==
    IF call.fn = "validateIOSVersioning" THEN call.buildNumber ELSE call.versionCode

SameVersion ==
    call.fn = "validateIOSVersioning" => call.version = call.lookup.value.version

VersionChecks == {"validateIOSVersioning", "validateAndroidVersioning"}

C26_StagedRolloutFraction ==
    (call.fn = "validateStagedRollout" /\ ret.done)
    => LET inRange == call.userFraction > 0 /\ call.userFraction <= 100
       IN  /\ (call.track = "production" /\ ~inRange)
              => (HasError(ret.value) /\ ~ret.value.valid)
           /\ (call.track = "production" /\ inRange)
              => (ret.value.valid /\ ret.value.errors = <<>>)
           /\ (call.track # "production" /\ inRange)
              => (ret.value.warnings # <<>> /\ ~HasError(ret.value))

\* C27: a version check run with dryRun = true on an identifier that is not
\* greater than the last known remote one (of the same version) returns a
\* valid result with a warning and no error.
C27_DryRunStaleIdentifierWarns ==
    (/\ call.fn \in VersionChecks /\ ret.done /\ call.dryRun
     /\ LastIdentifier # Null /\ SameVersion
     /\ SubmittedIdentifier <= LastIdentifier)
    => /\ ret.value.valid
       /\ ~HasError(ret.value)
       /\ ret.value.warnings # <<>>

\* C28: at most one job is being executed by the worker at any time: a tick
\* dispatches nothing while the attempt of another job is in flight.
C28_AtMostOneActive ==
    /\ Cardinality({j \in JobIds : pc[j] # "none"}) <= 1
    /\ Cardinality(activeJobs) <= 1

\* C29: the steps of an attempt run serially in their fixed order: the step
\* events of a job are a prefix of its handler's sequence, an attempt
\* suspended in a call has appended exactly the events up to the one that
\* announces the call, and once a call has thrown (an error, or the abort
\* observed by the polling) or the attempt is over, no step event is appended.
StepOrder(d) ==
    IF d.type \in SubmitIOSTypes
    THEN IF UploadsBuild(d.data)
         THEN <<"IOS_VALIDATION_START", "IOS_VALIDATION_COMPLETE", "IOS_UPLOAD_START",
                "IOS_UPLOAD_COMPLETE", "IOS_BUILD_PROCESSING", "IOS_BUILD_PROCESSED",
                "IOS_VERSION_SUBMITTED", "IOS_REVIEW_PENDING">>
         ELSE <<"IOS_VALIDATION_START", "IOS_VALIDATION_COMPLETE",
                "IOS_VERSION_SUBMITTED", "IOS_REVIEW_PENDING">>
    ELSE IF d.type \in SubmitAndroidTypes
    THEN IF UploadsBuild(d.data)
         THEN <<"ANDROID_VALIDATION_START", "ANDROID_VALIDATION_COMPLETE",
                "ANDROID_UPLOAD_START", "ANDROID_UPLOAD_COMPLETE", "ANDROID_EDIT_CREATED",
                "ANDROID_TRACK_ASSIGNED", "ANDROID_RELEASE_NOTES_ADDED",
                "ANDROID_EDIT_COMMITTED">>
              \o (IF d.data.track = "production" /\ d.data.userFraction > 0
                  THEN <<"ANDROID_ROLLOUT_STARTED">> ELSE <<>>)
         ELSE <<"ANDROID_VALIDATION_START", "ANDROID_VALIDATION_COMPLETE">>
    ELSE <<>>

\* the event a handler appends right before it awaits a call
AnnouncedBy(d, awaited) ==
    CASE awaited = "validateSubmission" ->
           IF d.type \in SubmitIOSTypes THEN "IOS_VALIDATION_START"
           ELSE "ANDROID_VALIDATION_START"
      [] awaited = "uploadBuild" ->
           IF d.type \in SubmitIOSTypes THEN "IOS_UPLOAD_START" ELSE "ANDROID_UPLOAD_START"
      [] awaited = "waitForBuildProcessing" -> "IOS_BUILD_PROCESSING"
      [] awaited = "createEdit" -> "ANDROID_EDIT_CREATED"
      [] awaited = "assignToTrack" -> "ANDROID_TRACK_ASSIGNED"
      [] awaited = "addReleaseNotes" -> "ANDROID_RELEASE_NOTES_ADDED"
      [] awaited = "commitEdit" -> "ANDROID_EDIT_COMMITTED"
      [] OTHER -> "none"

\* the codes of the step events of a progress sequence, in append order
StepEvents(progress) ==
    LET steps == SelectSeq(progress,
                     LAMBDA e : e.code \notin TerminalCodes \cup {"JOB_STARTED"})
    IN  [i \in 1..Len(steps) |-> steps[i].code]

C29_StepsSerialAndAbortOnFailure ==
    [][\A j \in JobIds :
         /\ IsPrefix(StepEvents(rep'[j].progress), StepOrder(job'[j]))
         /\ (pc'[j] # "none" /\ StepOrder(job'[j]) # <<>>)
            => Last(StepEvents(rep'[j].progress)) = AnnouncedBy(job'[j], pc'[j])
         /\ (AttemptEnds(j) /\ obs'[j].lastEv = "throw")
            => StepEvents(rep'[j].progress) = StepEvents(rep[j].progress)
         /\ (pc[j] = "none" /\ pc'[j] = "none")
            => StepEvents(rep'[j].progress) = StepEvents(rep[j].progress)]_vars

\* An Android submission whose createEdit call threw: the events up to
\* ANDROID_EDIT_CREATED, then JOB_FAILED, and no attempt in flight.
C29_Witness ==
    \E j \in JobIds :
        /\ job[j].type = "ANDROID_SUBMIT_PRODUCTION"
        /\ pc[j] = "none" /\ obs[j].lastEv = "throw"
        /\ Len(StepEvents(rep[j].progress)) = 5
        /\ Last(StepEvents(rep[j].progress)) = "ANDROID_EDIT_CREATED"
        /\ Last(rep[j].progress).code = "JOB_FAILED"

\* C30: while an attempt is blocked in the polling for build processing, the
\* job's status in the reporter is WAITING (or CANCELLED, once cancelled).
C30_WaitingWhilePolling ==
    \A j \in JobIds :
        pc[j] = "waitForBuildProcessing" => rep[j].status \in {"WAITING", "CANCELLED"}

\* C31: when the catch of processNextJob schedules the k-th re-enqueue of a job
\* (k the retry count after its increment, k >= 1) the delay it gives the timer
\* is 1000 * 2^k ms: 2000, 4000, 8000, ..., strictly longer than the delay of
\* the same job's re-enqueue before it.
C31_RetryDelayDoubles ==
    (call.fn = "processNextJobCatch" /\ ret.done /\ ret.value.retry)
    => LET k == ret.value.job.retryCount
           before == processNextJobCatch([call.job EXCEPT !.retryCount = k - 2],
                                         NoRecord, TRUE, AdapterError)
       IN  /\ k = call.job.retryCount + 1 /\ k >= 1
           /\ ret.value.delay = 1000 * (2 ^ k)
           /\ k = 1 => ret.value.delay = 2000
           /\ k = 2 => ret.value.delay = 4000
           /\ k = 3 => ret.value.delay = 8000
           /\ k >= 2 => (before.retry /\ ret.value.delay > before.delay)

\* The third re-enqueue of a job with the default budget is given 8000 ms.
C31_Witness ==
    /\ call.fn = "processNextJobCatch" /\ ret.done
    /\ call.job.retryCount = 2 /\ call.job.maxRetries = DefaultMaxRetries
    /\ ret.value.retry /\ ret.value.job.retryCount = 3 /\ ret.value.delay = 8000

\* C32: an adapter call made for a job submitted with dryRun = true is
\* simulated (it returns the capability's placeholder and never throws for
\* missing credentials) whatever isDryRun() says, and one made for a job
\* submitted with dryRun = false is not simulated.
DryRunPlaceholders == {"dry-run-build-id", "dry-run-upload-id", "dry-run-edit-id"}

C32_JobDryRunFlagDecides ==
    (call.fn = "handlerStep" /\ ret.done)
    => /\ call.jobDryRun
            => /\ ~ret.threw
               /\ ret = Adapter([call.step EXCEPT !.dryRun = TRUE])
       /\ ~call.jobDryRun
            => /\ ret.value \notin DryRunPlaceholders
               /\ ret = Adapter([call.step EXCEPT !.dryRun = FALSE])

Occurrences(q, j) == Cardinality({i \in 1..Len(q) : q[i] = j})

Places(j) ==
    (IF InQueue(queue, j) THEN 1 ELSE 0) + (IF j \in activeJobs THEN 1 ELSE 0)
    + (IF j \in retryTimers THEN 1 ELSE 0)
    + (IF rep[j].status \in TerminalStatuses THEN 1 ELSE 0)

C36_StoppedWorkerDispatchesNothing ==
    [][~processing'
       => \A j \in JobIds :
            /\ rep[j].status # "RUNNING" => rep'[j].status # "RUNNING"
            /\ pc[j] = "none" => (pc'[j] = "none" /\ obs'[j].calls = obs[j].calls)
            /\ j \notin activeJobs'
            /\ (InQueue(queue, j) /\ ~CancelJob(j))
               => (InQueue(queue', j) /\ rep'[j].status = "QUEUED" /\ rep'[j] = rep[j])]_vars

\* The worker stopped while one job was running and another was queued: the
\* first one's attempt has come back since, the second is still queued.
C36_Witness ==
    \E j, k \in JobIds :
        /\ ~processing /\ ~intervalId
        /\ obs[k].stoppedInFlight /\ pc[k] = "none"
        /\ InQueue(queue, j) /\ rep[j].status = "QUEUED"

\* C37: the percentage getProgressPercentage reports for a job never
\* decreases, whatever happens to the job (failure and cancellation included).
C37_ProgressPercentageNeverDecreases ==
    [][\A j \in JobIds :
         getProgressPercentage(rep'[j]) >= getProgressPercentage(rep[j])]_vars

\* C38: a job whose type has no case in processJob's switch is never left
\* RUNNING: once dispatched it is FAILED, with an "Unknown job type" error as
\* the only error of its result, and no attempt of it is in flight.
HandledTypes == SubmitIOSTypes \cup SubmitAndroidTypes \cup ValidateTypes

C38_UnknownJobTypeFails ==
    \A j \in JobIds :
        (rep[j].status # "NONE" /\ job[j].type \notin HandledTypes)
        => /\ rep[j].status # "RUNNING"
           /\ pc[j] = "none" /\ j \notin activeJobs
           /\ Contains(rep[j].statuses, "RUNNING")
              => /\ rep[j].statuses = <<"QUEUED", "RUNNING", "FAILED">>
                 /\ rep[j].hasResult /\ ~rep[j].success
                 /\ rep[j].errors = <<"Unknown job type">>
                 /\ job[j].status = "FAILED"
                 /\ rep[j].progress[Len(rep[j].progress)].code = "JOB_FAILED"

\* An IOS_METADATA_UPDATE job has been dispatched and has failed.
C38_Witness ==
    \E j \in JobIds :
        /\ job[j].type = "IOS_METADATA_UPDATE"
        /\ rep[j].status = "FAILED" /\ rep[j].errors = <<"Unknown job type">>
        /\ obs[j].calls = 0 /\ obs[j].lastEv = "throw"

\* C39: the activeJobs figure of getStatistics is the number of dispatch
\* attempts that have started and have not finished executing.
C39_ActiveJobsCountsAttemptsInFlight ==
    getStatistics.activeJobs = Cardinality({j \in JobIds : pc[j] # "none"})

====
